---------------------------- MODULE Spec2Model ----------------------------
(***************************************************************************)
(* ResearchDashboard: the analytics hook (useAdvancedAnalytics) and the    *)
(* analytics view that feeds it (AnalyticsDashboard.filteredData).         *)
(*                                                                         *)
(* JavaScript numbers are modelled as exact fractions <<n, d>>: d > 0 is   *)
(* a finite value, <<1, 0>> and <<-1, 0>> are +Infinity and -Infinity and  *)
(* <<0, 0>> is NaN, so a division by zero yields what IEEE-754 yields      *)
(* (rounding of finite values is not modelled).  Math.sqrt(x) is kept      *)
(* symbolically as a surd.  Instants are whole hours of local time counted *)
(* from 2023-01-01T00:00, a Sunday.  null/undefined fields are <<>> and a  *)
(* present value v is <<v>>.                                               *)
(***************************************************************************)
EXTENDS Integers, Sequences, FiniteSets, TLC

VARIABLES
    hookIn,     \* the four arguments of the current useAdvancedAnalytics call
    props,      \* AnalyticsDashboard props: appUsageData, pretestData, demographicsData
    ui,         \* AnalyticsDashboard state: dateRange, participantFilter, filters
    call,       \* the latest direct call of a statistical helper: arguments and outcome
    source,     \* one useSupabaseData instance: data, loading, error, fetches in flight
    zone        \* the runtime's time zone: hours that local time is ahead of UTC

vars == <<hookIn, props, ui, call, source, zone>>

-----------------------------------------------------------------------------
(* Optional values: null / undefined / absent field versus a present value *)

Null == <<>>
Some(v) == <<v>>
IsNull(o) == o = <<>>
Val(o) == o[1]

-----------------------------------------------------------------------------
(* JavaScript Number arithmetic on fractions                               *)

Abs(n) == IF n < 0 THEN -n ELSE n
Sign(n) == IF n > 0 THEN 1 ELSE IF n < 0 THEN -1 ELSE 0

RECURSIVE Gcd(_, _)
Gcd(a, b) == IF b = 0 THEN a ELSE Gcd(b, a % b)

Norm(n, d) ==
    IF d = 0 THEN <<Sign(n), 0>>
    ELSE LET g == Gcd(Abs(n), Abs(d))
             s == Sign(d)
         IN  <<(s * n) \div g, (s * d) \div g>>

Num(n) == <<n, 1>>
Frac(n, d) == Norm(n, d)
NaN == <<0, 0>>
IsNaN(x) == x[2] = 0 /\ x[1] = 0
IsFinite(x) == x[2] # 0
IsInteger(x) == x[2] = 1

RAdd(a, b) ==
    IF a[2] = 0 /\ b[2] = 0
    THEN (IF a[1] = b[1] THEN a ELSE NaN)
    ELSE Norm(a[1] * b[2] + b[1] * a[2], a[2] * b[2])
RNeg(a) == <<-a[1], a[2]>>
RSub(a, b) == RAdd(a, RNeg(b))
RMul(a, b) == Norm(a[1] * b[1], a[2] * b[2])
RDiv(a, b) == Norm(a[1] * b[2], a[2] * b[1])
RAbs(a) == <<Abs(a[1]), a[2]>>

RLt(a, b) ==
    /\ ~IsNaN(a)
    /\ ~IsNaN(b)
    /\ IF a[2] = 0 /\ b[2] = 0 THEN a[1] < b[1]
       ELSE a[1] * b[2] < b[1] * a[2]
RGt(a, b) == RLt(b, a)
RLe(a, b) == ~IsNaN(a) /\ ~IsNaN(b) /\ ~RLt(b, a)
RGe(a, b) == RLe(b, a)
REq(a, b) == ~IsNaN(a) /\ ~IsNaN(b) /\ ~RLt(a, b) /\ ~RLt(b, a)
Truthy(x) == ~IsNaN(x) /\ x[1] # 0

Floor(x) == Num(x[1] \div x[2])
Ceil(x) == Num(-((-x[1]) \div x[2]))

RECURSIVE SumSeq(_)
SumSeq(s) == IF s = <<>> THEN Num(0) ELSE RAdd(SumSeq(SubSeq(s, 1, Len(s) - 1)), s[Len(s)])

(* Math.sqrt and the values computed from it: the surd num * sqrt(rad).    *)
Surd(num, rad) == [num |-> num, rad |-> rad]
Sqrt(x) == Surd(Num(1), x)
SurdOf(x) == Surd(x, Num(1))
SurdFinite(s) == IsFinite(s.num) /\ IsFinite(s.rad) /\ RGe(s.rad, Num(0))
SurdIsZero(s) == SurdFinite(s) /\ (s.num[1] = 0 \/ s.rad[1] = 0)
SurdSq(s) == RMul(RMul(s.num, s.num), s.rad)
SurdSign(s) == IF SurdIsZero(s) THEN 0 ELSE Sign(s.num[1])
\* s > c for a finite surd s and a finite fraction c
SurdGt(s, c) ==
    /\ SurdFinite(s)
    /\ IsFinite(c)
    /\ IF SurdSign(s) >= 0
       THEN RLt(c, Num(0)) \/ RGt(SurdSq(s), RMul(c, c))
       ELSE RLt(c, Num(0)) /\ RLt(SurdSq(s), RMul(c, c))
SurdAbs(s) == Surd(RAbs(s.num), s.rad)

-----------------------------------------------------------------------------
(* Array.prototype.sort with a comparator: a stable sort, written as the   *)
(* rank of every element.                                                  *)

\* the function f with its values computed once
Tabulate(f) == f @@ <<>>

SortBy(s, Cmp(_, _)) ==
    LET n == Len(s)
        rank == Tabulate([i \in 1..n |->
                    1 + Cardinality({j \in 1..n :
                            \/ Cmp(s[j], s[i]) < 0
                            \/ (Cmp(s[j], s[i]) = 0 /\ j < i)})])
    IN  [k \in 1..n |-> s[CHOOSE i \in 1..n : rank[i] = k]] \o <<>>

NumCmp(a, b) == IF RLt(a, b) THEN -1 ELSE IF RLt(b, a) THEN 1 ELSE 0


-----------------------------------------------------------------------------
(* The Date object: local calendar fields of an instant                    *)

HoursPerDay == 24

IsLeap(y) == (y % 4 = 0 /\ y % 100 # 0) \/ y % 400 = 0
DaysInYear(y) == IF IsLeap(y) THEN 366 ELSE 365
DaysInMonth(y, m) ==
    IF m \in {4, 6, 9, 11} THEN 30
    ELSE IF m = 2 THEN (IF IsLeap(y) THEN 29 ELSE 28)
    ELSE 31

RECURSIVE DaysBeforeYear(_)
DaysBeforeYear(y) == IF y <= 2023 THEN 0 ELSE DaysBeforeYear(y - 1) + DaysInYear(y - 1)
RECURSIVE DaysBeforeMonth(_, _)
DaysBeforeMonth(y, m) == IF m <= 1 THEN 0 ELSE DaysBeforeMonth(y, m - 1) + DaysInMonth(y, m - 1)

\* day number of the civil date y-m-d (m in 1..12)
DaysFromCivil(y, m, d) == DaysBeforeYear(y) + DaysBeforeMonth(y, m) + d - 1
At(y, m, d, h) == DaysFromCivil(y, m, d) * HoursPerDay + h

DayOf(t) == t \div HoursPerDay
getHours(t) == t % HoursPerDay
getFullYear(t) ==
    CHOOSE y \in 2023..2026 : DaysBeforeYear(y) <= DayOf(t) /\ DayOf(t) < DaysBeforeYear(y + 1)
\* getMonth() is zero-based
getMonth(t) ==
    LET y == getFullYear(t)
        n == DayOf(t) - DaysBeforeYear(y)
    IN  (CHOOSE m \in 1..12 : DaysBeforeMonth(y, m) <= n /\ n < DaysBeforeMonth(y, m) + DaysInMonth(y, m)) - 1
getDate(t) ==
    DayOf(t) - DaysBeforeYear(getFullYear(t)) - DaysBeforeMonth(getFullYear(t), getMonth(t) + 1) + 1
getDay(t) == DayOf(t) % 7
\* setDate(n) on a copy of t: same month and time of day, day-of-month n (n <= 0 rolls back)
setDate(t, n) == t + (n - getDate(t)) * HoursPerDay
\* toDateString(): weekday, month, day and year, the time of day dropped
toDateString(t) == <<getDay(t), getMonth(t) + 1, getDate(t), getFullYear(t)>>
\* new Date(<a toDateString text>): local midnight of that day
parseDateString(k) == At(k[4], k[2], k[3], 0)


-----------------------------------------------------------------------------
(* Strings that the code compares character by character: UTF-16 code units *)

RECURSIVE Digits(_)
\* String(n) for a non-negative integer n
Digits(n) == IF n < 10 THEN <<48 + n>> ELSE Digits(n \div 10) \o <<48 + (n % 10)>>

RECURSIVE ParseNat(_)
\* the number a text of decimal digits denotes
ParseNat(text) ==
    IF text = <<>> THEN 0 ELSE ParseNat(SubSeq(text, 1, Len(text) - 1)) * 10 + (text[Len(text)] - 48)

\* a number below 100 written with two digits
Pad2(n) == IF n < 10 THEN <<48>> \o Digits(n) ELSE Digits(n)

RECURSIVE localeCompare(_, _)
\* a.localeCompare(b) on texts of digits and '-': negative, zero or positive
localeCompare(a, b) ==
    IF a = <<>> THEN (IF b = <<>> THEN 0 ELSE -1)
    ELSE IF b = <<>> THEN 1
    ELSE IF Head(a) < Head(b) THEN -1
    ELSE IF Head(a) > Head(b) THEN 1
    ELSE localeCompare(Tail(a), Tail(b))

-----------------------------------------------------------------------------
(* Arguments of the hook                                                   *)

ArrayOf(items) == [kind |-> "array", items |-> items]
NullArg == [kind |-> "null", items |-> <<>>]
UndefinedArg == [kind |-> "undefined", items |-> <<>>]
IsArray(a) == a.kind = "array"
\* x || []
OrEmpty(a) == IF a.kind \in {"null", "undefined"} THEN ArrayOf(<<>>) ELSE a

DateRanges == {"today", "7d", "30d", "90d", "all"}

\* the instant new Date() returns during one render
now == At(2024, 10, 16, 12)

\* a row of app_usage_sessions; the table has no session_duration column
Session(p, d, t) ==
    [participant_number |-> p, duration_minutes |-> d, created_at |-> t, session_duration |-> Null]

-----------------------------------------------------------------------------
(* useAdvancedAnalytics: statistical helpers                               *)

mean(arr) == IF Len(arr) # 0 THEN RDiv(SumSeq(arr), Num(Len(arr))) ELSE Num(0)

sortNumeric(arr) == SortBy(arr, NumCmp)

median(arr) ==
    IF Len(arr) = 0 THEN Num(0)
    ELSE LET sorted == sortNumeric(arr)
             mid == Len(sorted) \div 2     \* zero-based index
         IN  IF Len(sorted) % 2 # 0 THEN sorted[mid + 1]
             ELSE RDiv(RAdd(sorted[mid], sorted[mid + 1]), Num(2))

\* median(arr) seen from the caller: the value returned and the caller's array after the
\* call, had the sort been applied to arr itself
medianCallInPlace(arr) == [result |-> median(arr), arr |-> sortNumeric(arr)]

\* median(arr) seen from the caller: the value returned and the caller's array after the
\* call; the sort is applied to the copy [...arr]
medianCall(arr) == [result |-> median(arr), arr |-> arr]

standardDeviation(arr) ==
    IF Len(arr) = 0 THEN SurdOf(Num(0))
    ELSE LET avg == mean(arr)
             squareDiffs == [i \in 1..Len(arr) |-> RMul(RSub(arr[i], avg), RSub(arr[i], avg))]
         IN  Sqrt(mean(squareDiffs))

\* percentile reading the array in the order given
percentileUnsorted(arr, p) ==
    IF Len(arr) = 0 THEN Num(0)
    ELSE LET sorted == arr
             index == RMul(RDiv(Num(p), Num(100)), Num(Len(sorted) - 1))
             lower == Floor(index)
             upper == Ceil(index)
         IN  IF lower = upper THEN sorted[lower[1] + 1]
             ELSE RAdd(RMul(sorted[lower[1] + 1], RSub(upper, index)),
                       RMul(sorted[upper[1] + 1], RSub(index, lower)))

percentile(arr, p) ==
    IF Len(arr) = 0 THEN Num(0)
    ELSE LET sorted == sortNumeric(arr)
             index == RMul(RDiv(Num(p), Num(100)), Num(Len(sorted) - 1))
             lower == Floor(index)
             upper == Ceil(index)
         IN  IF lower = upper THEN sorted[lower[1] + 1]
             ELSE RAdd(RMul(sorted[lower[1] + 1], RSub(upper, index)),
                       RMul(sorted[upper[1] + 1], RSub(index, lower)))

\* correlation dividing by the denominator whatever its value
correlationUnguarded(x, y) ==
    IF Len(x) = 0 \/ Len(y) = 0 \/ Len(x) # Len(y) THEN SurdOf(Num(0))
    ELSE LET meanX == mean(x)
             meanY == mean(y)
             numerator == SumSeq([i \in 1..Len(x) |-> RMul(RSub(x[i], meanX), RSub(y[i], meanY))])
             sxx == SumSeq([i \in 1..Len(x) |-> RMul(RSub(x[i], meanX), RSub(x[i], meanX))])
             syy == SumSeq([i \in 1..Len(y) |-> RMul(RSub(y[i], meanY), RSub(y[i], meanY))])
             radicand == RMul(sxx, syy)
         IN  Surd(numerator, RDiv(Num(1), radicand))

correlation(x, y) ==
    IF Len(x) = 0 \/ Len(y) = 0 \/ Len(x) # Len(y) THEN SurdOf(Num(0))
    ELSE LET meanX == mean(x)
             meanY == mean(y)
             numerator == SumSeq([i \in 1..Len(x) |-> RMul(RSub(x[i], meanX), RSub(y[i], meanY))])
             sxx == SumSeq([i \in 1..Len(x) |-> RMul(RSub(x[i], meanX), RSub(x[i], meanX))])
             syy == SumSeq([i \in 1..Len(y) |-> RMul(RSub(y[i], meanY), RSub(y[i], meanY))])
             radicand == RMul(sxx, syy)      \* denominator = Math.sqrt(radicand)
         IN  IF Truthy(radicand) /\ RGe(radicand, Num(0))
             THEN Surd(numerator, RDiv(Num(1), radicand))
             ELSE SurdOf(Num(0))

RECURSIVE MinOf(_)
MinOf(arr) == IF Len(arr) = 1 THEN arr[1]
              ELSE LET m == MinOf(Tail(arr)) IN IF RLt(arr[1], m) THEN arr[1] ELSE m
RECURSIVE MaxOf(_)
MaxOf(arr) == IF Len(arr) = 1 THEN arr[1]
              ELSE LET m == MaxOf(Tail(arr)) IN IF RGt(arr[1], m) THEN arr[1] ELSE m

-----------------------------------------------------------------------------
(* useAdvancedAnalytics: period windows and session statistics            *)

\* the sessions argument used as passed, without `|| []`
currentAppUsageAsPassed == hookIn.appUsageData

currentAppUsage == OrEmpty(hookIn.appUsageData)
currentPretest == OrEmpty(hookIn.pretestData)
currentDemographics == OrEmpty(hookIn.demographicsData)
dateRange == hookIn.dateRange

\* .map / .reduce on a value that is no array raises a TypeError
raised == ~IsArray(currentAppUsage) \/ ~IsArray(currentPretest) \/ ~IsArray(currentDemographics)

AllDays == [all |-> TRUE, days |-> 0]
Days(n) == [all |-> FALSE, days |-> n]

periodDays(label) ==
    IF label = "today" THEN Days(1)
    ELSE IF label = "7d" THEN Days(7)
    ELSE IF label = "30d" THEN Days(30)
    ELSE IF label = "90d" THEN Days(90)
    ELSE AllDays

currentPeriodDays == periodDays(dateRange)

getPreviousPeriodData(data, days) ==
    IF ~IsArray(data) \/ days.all THEN <<>>
    ELSE LET periodStart == now - days.days * HoursPerDay
             previousStart == now - (days.days * 2) * HoursPerDay
         IN  SelectSeq(data.items, LAMBDA item :
                 /\ ~IsNull(item.created_at)
                 /\ Val(item.created_at) >= previousStart
                 /\ Val(item.created_at) < periodStart)

previousAppUsage == getPreviousPeriodData(currentAppUsage, currentPeriodDays)
previousPretest == getPreviousPeriodData(currentPretest, currentPeriodDays)

\* .map(session => session.duration_minutes).filter(d => d != null && d > 0)
usableDurations(sessions) ==
    LET kept == SelectSeq(sessions, LAMBDA s :
                    ~IsNull(s.duration_minutes) /\ Val(s.duration_minutes) > 0)
    IN  [i \in 1..Len(kept) |-> Num(Val(kept[i].duration_minutes))]

sessionDurations == usableDurations(currentAppUsage.items)
previousSessionDurations == usableDurations(previousAppUsage)

\* the count change without its zero guard
changeCountUnguarded ==
    RMul(RDiv(Num(Len(sessionDurations) - Len(previousSessionDurations)),
              Num(Len(previousSessionDurations))), Num(100))

changeCount ==
    IF Len(previousSessionDurations) # 0
    THEN RMul(RDiv(Num(Len(sessionDurations) - Len(previousSessionDurations)),
                   Num(Len(previousSessionDurations))), Num(100))
    ELSE Num(0)

changeMean ==
    IF Len(previousSessionDurations) # 0
    THEN RMul(RDiv(RSub(mean(sessionDurations), mean(previousSessionDurations)),
                   mean(previousSessionDurations)), Num(100))
    ELSE Num(0)

sessionAnalytics ==
    LET durations == sessionDurations
        previous == previousSessionDurations
    IN  [count |-> Len(durations),
         mean |-> mean(durations),
         median |-> median(durations),
         standardDeviation |-> standardDeviation(durations),
         min |-> IF Len(durations) # 0 THEN MinOf(durations) ELSE Num(0),
         max |-> IF Len(durations) # 0 THEN MaxOf(durations) ELSE Num(0),
         percentiles |-> [p25 |-> percentile(durations, 25),
                          p75 |-> percentile(durations, 75),
                          p90 |-> percentile(durations, 90),
                          p95 |-> percentile(durations, 95)],
         previousPeriod |-> [count |-> Len(previous),
                             mean |-> mean(previous),
                             median |-> median(previous),
                             change |-> [count |-> changeCount, mean |-> changeMean]]]

-----------------------------------------------------------------------------
(* useAdvancedAnalytics: time series and trend                             *)

\* the grouping with strict thresholds
getTimeSeriesGroupingStrict(days) ==
    IF days < 7 THEN "daily"
    ELSE IF days < 30 THEN "daily"
    ELSE IF days < 90 THEN "weekly"
    ELSE "monthly"

getTimeSeriesGrouping(days) ==
    IF days <= 7 THEN "daily"
    ELSE IF days <= 30 THEN "daily"
    ELSE IF days <= 90 THEN "weekly"
    ELSE "monthly"

grouping == getTimeSeriesGrouping(IF currentPeriodDays.all THEN 365 ELSE currentPeriodDays.days)

\* `${date.getFullYear()}-${date.getMonth() + 1}`
monthKey(t) == Digits(getFullYear(t)) \o <<45>> \o Digits(getMonth(t) + 1)

periodKey(t) ==
    IF grouping = "daily" THEN toDateString(t)
    ELSE IF grouping = "weekly" THEN toDateString(setDate(t, getDate(t) - getDay(t)))
    ELSE monthKey(t)

RECURSIVE Tally(_)
\* acc[key] = (acc[key] || 0) + 1 over the keys, entries kept in insertion order
Tally(keys) ==
    IF keys = <<>> THEN <<>>
    ELSE LET acc == Tally(SubSeq(keys, 1, Len(keys) - 1))
             key == keys[Len(keys)]
         IN  IF \E i \in DOMAIN acc : acc[i].key = key
             THEN [i \in DOMAIN acc |->
                      IF acc[i].key = key THEN [key |-> key, count |-> acc[i].count + 1] ELSE acc[i]]
             ELSE Append(acc, [key |-> key, count |-> 1])

sessionsByPeriod ==
    LET dated == SelectSeq(currentAppUsage.items, LAMBDA s : ~IsNull(s.created_at))
    IN  Tally([i \in 1..Len(dated) |-> periodKey(Val(dated[i].created_at))])

periodCmp(a, b) ==
    IF grouping = "monthly" THEN localeCompare(a.period, b.period)
    ELSE a.period - b.period

timeSeriesData ==
    LET byPeriod == sessionsByPeriod
    IN  SortBy([i \in 1..Len(byPeriod) |->
                   [period |-> IF grouping = "monthly" THEN byPeriod[i].key
                               ELSE parseDateString(byPeriod[i].key),
                    count |-> byPeriod[i].count,
                    grouping |-> grouping]],
               periodCmp)

RECURSIVE SumInt(_)
SumInt(s) == IF s = <<>> THEN 0 ELSE SumInt(SubSeq(s, 1, Len(s) - 1)) + s[Len(s)]

\* the regression without its guard for fewer than two points
calculateTrendUnguarded(data) ==
    LET n == Len(data)
        sumX == SumInt([i \in 1..n |-> i - 1])
        sumY == SumInt([i \in 1..n |-> data[i].count])
        sumXY == SumInt([i \in 1..n |-> (i - 1) * data[i].count])
        sumXX == SumInt([i \in 1..n |-> (i - 1) * (i - 1)])
        slope == RDiv(Num(n * sumXY - sumX * sumY), Num(n * sumXX - sumX * sumX))
    IN  [slope |-> slope,
         direction |-> IF RGt(slope, Frac(1, 10)) THEN "increasing"
                       ELSE IF RLt(slope, Frac(-1, 10)) THEN "decreasing"
                       ELSE "stable"]

\* the regression guarded against the empty series only
calculateTrendShortGuard(data) ==
    IF Len(data) < 1 THEN [slope |-> Num(0), direction |-> "stable"]
    ELSE calculateTrendUnguarded(data)

\* the regression with the direction thresholds at 1 and -1
calculateTrendSteep(data) ==
    IF Len(data) < 2 THEN [slope |-> Num(0), direction |-> "stable"]
    ELSE LET slope == calculateTrendUnguarded(data).slope
         IN  [slope |-> slope,
              direction |-> IF RGt(slope, Num(1)) THEN "increasing"
                            ELSE IF RLt(slope, Num(-1)) THEN "decreasing"
                            ELSE "stable"]

calculateTrend(data) ==
    IF Len(data) < 2 THEN [slope |-> Num(0), direction |-> "stable"]
    ELSE LET n == Len(data)
             sumX == SumInt([i \in 1..n |-> i - 1])
             sumY == SumInt([i \in 1..n |-> data[i].count])
             sumXY == SumInt([i \in 1..n |-> (i - 1) * data[i].count])
             sumXX == SumInt([i \in 1..n |-> (i - 1) * (i - 1)])
             slope == RDiv(Num(n * sumXY - sumX * sumY), Num(n * sumXX - sumX * sumX))
         IN  [slope |-> slope,
              direction |-> IF RGt(slope, Frac(1, 10)) THEN "increasing"
                            ELSE IF RLt(slope, Frac(-1, 10)) THEN "decreasing"
                            ELSE "stable"]

sessionTrend == calculateTrend(timeSeriesData)

\* new Set(sessions.map(s => s.participant_number).filter(Boolean)).size
participantCount(sessions) ==
    Cardinality({Val(sessions[i].participant_number) :
                    i \in {j \in 1..Len(sessions) : ~IsNull(sessions[j].participant_number)}})

trendOf(change) ==
    IF RGt(change, Num(5)) THEN "increasing"
    ELSE IF RLt(change, Num(-5)) THEN "decreasing"
    ELSE "stable"

participantsChange ==
    LET current == participantCount(currentAppUsage.items)
        previous == participantCount(previousAppUsage)
    IN  IF previous # 0
        THEN RMul(RDiv(Num(current - previous), Num(previous)), Num(100))
        ELSE Num(0)

periodComparison ==
    LET sa == sessionAnalytics
    IN  [sessions |-> [current |-> sa.count,
                       previous |-> sa.previousPeriod.count,
                       change |-> sa.previousPeriod.change.count,
                       trend |-> trendOf(sa.previousPeriod.change.count)],
         duration |-> [current |-> sa.mean,
                       previous |-> sa.previousPeriod.mean,
                       change |-> sa.previousPeriod.change.mean,
                       trend |-> trendOf(sa.previousPeriod.change.mean)],
         participants |-> [current |-> participantCount(currentAppUsage.items),
                           previous |-> participantCount(previousAppUsage),
                           change |-> participantsChange]]

-----------------------------------------------------------------------------
(* Flat response / survey records.  A field value is <<"str", s>>,         *)
(* <<"num", n>>, <<"bool", b>> or <<"null">>.                              *)

Row(p, t, fields) == [participant_number |-> p, created_at |-> t, fields |-> fields]

\* Object.entries(record)
Entries(r) ==
    (IF IsNull(r.participant_number) THEN <<>>
     ELSE << <<"participant_number", <<"str", Val(r.participant_number)>> >> >>)
    \o r.fields
    \o (IF IsNull(r.created_at) THEN <<>>
        ELSE << <<"created_at", <<"date", Val(r.created_at)>> >> >>)

\* record[key], <<"null">> when the record has no such field
FieldValue(record, key) ==
    LET entries == Entries(record)
        at == {e \in 1..Len(entries) : entries[e][1] = key}
    IN  IF at = {} THEN <<"null">> ELSE entries[CHOOSE e \in at : TRUE][2]

\* typeof value
typeof(v) ==
    IF v[1] = "num" THEN "number"
    ELSE IF v[1] = "bool" THEN "boolean"
    ELSE IF v[1] \in {"str", "date"} THEN "string"
    ELSE "object"

\* String(value)
StringOf(v) ==
    IF v[1] = "str" THEN v[2]
    ELSE IF v[1] = "bool" THEN (IF v[2] THEN "true" ELSE "false")
    ELSE ToString(v[2])

\* spelling of the field names that occur in pretest responses
Spell(key) ==
    CASE key = "id" -> <<"i", "d">>
      [] key = "participant_number" ->
            <<"p", "a", "r", "t", "i", "c", "i", "p", "a", "n", "t", "_", "n", "u", "m", "b", "e", "r">>
      [] key = "created_at" -> <<"c", "r", "e", "a", "t", "e", "d", "_", "a", "t">>
      [] key = "who5_cheerful" -> <<"w", "h", "o", "5", "_", "c", "h", "e", "e", "r", "f", "u", "l">>
      [] key = "pss4_unable_control" ->
            <<"p", "s", "s", "4", "_", "u", "n", "a", "b", "l", "e", "_", "c", "o", "n", "t", "r", "o", "l">>
      [] key = "pss4_confident_handle" ->
            <<"p", "s", "s", "4", "_", "c", "o", "n", "f", "i", "d", "e", "n", "t", "_", "h", "a", "n", "d", "l", "e">>
      [] key = "is_registered_nurse" ->
            <<"i", "s", "_", "r", "e", "g", "i", "s", "t", "e", "r", "e", "d", "_", "n", "u", "r", "s", "e">>
      [] key = "pss4_going_your_way" ->
            <<"p", "s", "s", "4", "_", "g", "o", "i", "n", "g", "_", "y", "o", "u", "r", "_", "w", "a", "y">>
      [] key = "pss4_difficulties_piling" ->
            <<"p", "s", "s", "4", "_", "d", "i", "f", "f", "i", "c", "u", "l", "t", "i", "e", "s", "_",
              "p", "i", "l", "i", "n", "g">>
      [] key = "age" -> <<"a", "g", "e">>

\* text.includes(part)
Includes(text, part) ==
    \E i \in 1..(Len(text) - Len(part) + 1) : SubSeq(text, i, i + Len(part) - 1) = part

-----------------------------------------------------------------------------
(* useAdvancedAnalytics: demographic distribution and pretest analysis     *)

\* the (key, value) pairs the reduce tallies, one per record and field
\* the tallied pairs without the exclusion of id and created_at
demographicCellsUnfiltered ==
    LET rows == currentDemographics.items
    IN  {c \in UNION {{<<i, j>> : j \in 1..Len(Entries(rows[i]))} : i \in 1..Len(rows)} :
            Entries(rows[c[1]])[c[2]][2][1] # "null"}

demographicCells ==
    LET rows == currentDemographics.items
    IN  {c \in UNION {{<<i, j>> : j \in 1..Len(Entries(rows[i]))} : i \in 1..Len(rows)} :
            /\ Entries(rows[c[1]])[c[2]][2][1] # "null"
            /\ Entries(rows[c[1]])[c[2]][1] # "id"
            /\ Entries(rows[c[1]])[c[2]][1] # "created_at"}

demographicDistribution ==
    LET rows == currentDemographics.items
        cells == demographicCells
        keyOf(c) == Entries(rows[c[1]])[c[2]][1]
        strOf(c) == StringOf(Entries(rows[c[1]])[c[2]][2])
        keys == {keyOf(c) : c \in cells}
    IN  [key \in keys |->
            [valueStr \in {strOf(c) : c \in {d \in cells : keyOf(d) = key}} |->
                Cardinality({c \in cells : keyOf(c) = key /\ strOf(c) = valueStr})]]

pretestCells ==
    LET rows == currentPretest.items
    IN  UNION {{<<i, j>> : j \in 1..Len(Entries(rows[i]))} : i \in 1..Len(rows)}

booleanFields ==
    LET rows == currentPretest.items
        keyOf(c) == Entries(rows[c[1]])[c[2]][1]
        valOf(c) == Entries(rows[c[1]])[c[2]][2]
        all == pretestCells
        cells == {c \in all : typeof(valOf(c)) = "boolean"}
    IN  [key \in {keyOf(c) : c \in cells} |->
            [true |-> Cardinality({c \in cells : keyOf(c) = key /\ valOf(c)[2]}),
             false |-> Cardinality({c \in cells : keyOf(c) = key /\ ~valOf(c)[2]})]]

numericFields ==
    LET rows == currentPretest.items
        keyOf(c) == Entries(rows[c[1]])[c[2]][1]
        valOf(c) == Entries(rows[c[1]])[c[2]][2]
        all == pretestCells
        cells == {c \in all :
                     typeof(valOf(c)) = "number" /\ ~Includes(Spell(keyOf(c)), <<"i", "d">>)}
        \* values pushed in response order
        valuesOf(key) ==
            LET having == SelectSeq([i \in 1..Len(rows) |-> i],
                              LAMBDA i : \E c \in cells : c[1] = i /\ keyOf(c) = key)
            IN  [n \in 1..Len(having) |->
                    Num(valOf(CHOOSE c \in cells : c[1] = having[n] /\ keyOf(c) = key)[2])]
    IN  [key \in {keyOf(c) : c \in cells} |->
            LET values == valuesOf(key)
            IN  [values |-> values,
                 mean |-> mean(values),
                 median |-> median(values),
                 standardDeviation |-> standardDeviation(values),
                 min |-> MinOf(values),
                 max |-> MaxOf(values)]]

pretestAnalysis == [booleanFields |-> booleanFields, numericFields |-> numericFields]

-----------------------------------------------------------------------------
(* useAdvancedAnalytics: correlation and usage patterns                    *)

\* sessions with a truthy participant_number and a truthy duration_minutes
featureSessions ==
    SelectSeq(currentAppUsage.items, LAMBDA s :
        /\ ~IsNull(s.participant_number)
        /\ ~IsNull(s.duration_minutes)
        /\ Val(s.duration_minutes) # 0)

RECURSIVE FirstSeen(_)
\* the distinct keys of a sequence in order of first occurrence
FirstSeen(keys) ==
    IF keys = <<>> THEN <<>>
    ELSE LET acc == FirstSeen(SubSeq(keys, 1, Len(keys) - 1))
         IN  IF \E i \in DOMAIN acc : acc[i] = keys[Len(keys)] THEN acc
             ELSE Append(acc, keys[Len(keys)])

\* Object.values(participantData)
participantData ==
    LET features == featureSessions
        ids == FirstSeen([i \in 1..Len(features) |-> Val(features[i].participant_number)])
        own(p) == SelectSeq(features, LAMBDA s : Val(s.participant_number) = p)
        total(p) == SumSeq([i \in 1..Len(own(p)) |-> Num(Val(own(p)[i].duration_minutes))])
    IN  [k \in 1..Len(ids) |->
            [participant |-> ids[k],
             sessions |-> Len(own(ids[k])),
             totalDuration |-> total(ids[k]),
             avgDuration |-> RDiv(total(ids[k]), Num(Len(own(ids[k]))))]]

strengthOf(coefficient) ==
    IF SurdGt(SurdAbs(coefficient), Frac(7, 10)) THEN "strong"
    ELSE IF SurdGt(SurdAbs(coefficient), Frac(3, 10)) THEN "moderate"
    ELSE "weak"

\* correlations.sessionsVsDuration, absent (<<>>) for 5 sessions or fewer
sessionsVsDuration ==
    IF Len(currentAppUsage.items) > 5
    THEN LET participants == participantData
             sessionCounts == [k \in 1..Len(participants) |-> Num(participants[k].sessions)]
             avgDurations == [k \in 1..Len(participants) |-> participants[k].avgDuration]
             coefficient == correlation(sessionCounts, avgDurations)
         IN  Some([coefficient |-> coefficient, strength |-> strengthOf(coefficient)])
    ELSE Null

usagePatterns ==
    LET rows == currentAppUsage.items
        dated == SelectSeq(rows, LAMBDA s : ~IsNull(s.created_at))
        hours == {getHours(Val(dated[i].created_at)) : i \in 1..Len(dated)}
        days == {getDay(Val(dated[i].created_at)) : i \in 1..Len(dated)}
        known == SelectSeq(rows, LAMBDA s : ~IsNull(s.participant_number))
        ids == {Val(known[i].participant_number) : i \in 1..Len(known)}
        own(p) == SelectSeq(known, LAMBDA s : Val(s.participant_number) = p)
        seen(p) == {Val(own(p)[i].created_at) : i \in {j \in 1..Len(own(p)) : ~IsNull(own(p)[j].created_at)}}
    IN  [hourlyDistribution |->
            [h \in hours |-> Cardinality({i \in 1..Len(dated) : getHours(Val(dated[i].created_at)) = h})],
         dailyDistribution |->
            [d \in days |-> Cardinality({i \in 1..Len(dated) : getDay(Val(dated[i].created_at)) = d})],
         participantEngagement |->
            [p \in ids |->
                [sessions |-> Len(own(p)),
                 totalDuration |-> SumInt([i \in 1..Len(own(p)) |->
                                      IF IsNull(own(p)[i].duration_minutes) THEN 0
                                      ELSE Val(own(p)[i].duration_minutes)]),
                 lastActivity |-> IF seen(p) = {} THEN Null
                                  ELSE Some(CHOOSE t \in seen(p) : \A u \in seen(p) : u <= t)]]]

-----------------------------------------------------------------------------
(* useAdvancedAnalytics: insights and summary                              *)

Insight(type, category, title, metric, impact) ==
    [type |-> type, category |-> category, title |-> title, metric |-> metric, impact |-> impact]

impactOrder(impact) ==
    IF impact = "high" THEN 3 ELSE IF impact = "medium" THEN 2 ELSE 1

impactCmp(a, b) == impactOrder(b.impact) - impactOrder(a.impact)

sessionsPerParticipant ==
    LET participants == participantCount(currentAppUsage.items)
    IN  RDiv(Num(Len(currentAppUsage.items)), Num(IF participants > 1 THEN participants ELSE 1))

\* the insight pushed for correlations.sessionsVsDuration
correlationInsight(sessionCorrelation) ==
    IF ~IsNull(sessionCorrelation) /\ Val(sessionCorrelation).strength = "strong"
    THEN <<Insight("info", "correlation",
                   IF SurdSign(Val(sessionCorrelation).coefficient) > 0
                   THEN "Positive Session-Duration Correlation"
                   ELSE "Negative Session-Duration Correlation",
                   Val(sessionCorrelation).coefficient, "medium")>>
    ELSE <<>>

\* the insights in the order the rules push them
pushedInsights ==
    LET sa == sessionAnalytics
        pc == periodComparison
        totalSessions == Len(currentAppUsage.items)
        weeklyAverage == RDiv(Num(totalSessions), Frac(43, 10))
        monthlyAverage == RDiv(Num(totalSessions), Num(3))
        participantGrowth == pc.participants.change
        trend == sessionTrend
        perParticipant == sessionsPerParticipant
        sessionCorrelation == sessionsVsDuration
    IN  (IF RGt(sa.mean, Num(0)) /\ RGt(sa.mean, Num(30))
         THEN <<Insight("positive", "engagement", "High Engagement Sessions", SurdOf(sa.mean), "high")>>
         ELSE IF RGt(sa.mean, Num(0)) /\ RLt(sa.mean, Num(10))
         THEN <<Insight("warning", "engagement", "Short Session Duration", SurdOf(sa.mean), "medium")>>
         ELSE <<>>)
        \o
        (IF trend.direction = "increasing"
         THEN <<Insight("positive", "growth", "Growing User Activity", SurdOf(trend.slope), "high")>>
         ELSE IF trend.direction = "decreasing"
         THEN <<Insight("warning", "retention", "Declining Activity", SurdOf(trend.slope), "high")>>
         ELSE <<>>)
        \o
        (IF SurdGt(sa.standardDeviation, RMul(sa.mean, Frac(8, 10)))
         THEN <<Insight("info", "behavior", "High Usage Variability", sa.standardDeviation, "medium")>>
         ELSE <<>>)
        \o
        (IF RGt(perParticipant, Num(5))
         THEN <<Insight("positive", "retention", "Strong User Retention",
                        SurdOf(perParticipant), "high")>>
         ELSE <<>>)
        \o
        (IF dateRange # "all" /\ pc.sessions.previous > 0 /\ RGt(RAbs(pc.sessions.change), Num(20))
         THEN <<Insight(IF RGt(pc.sessions.change, Num(0)) THEN "positive" ELSE "warning",
                        "growth",
                        IF RGt(pc.sessions.change, Num(0)) THEN "Sessions increased" ELSE "Sessions decreased",
                        SurdOf(pc.sessions.change), "high")>>
         ELSE <<>>)
        \o
        (IF dateRange # "all" /\ pc.sessions.previous > 0 /\ RGt(RAbs(pc.duration.change), Num(15))
         THEN <<Insight(IF RGt(pc.duration.change, Num(0)) THEN "positive" ELSE "warning",
                        "engagement",
                        IF RGt(pc.duration.change, Num(0))
                        THEN "Session Duration increased" ELSE "Session Duration decreased",
                        SurdOf(pc.duration.change), "medium")>>
         ELSE <<>>)
        \o
        (IF dateRange = "30d" /\ RGt(weeklyAverage, Num(10))
         THEN <<Insight("positive", "activity", "High Monthly Activity", SurdOf(weeklyAverage), "high")>>
         ELSE <<>>)
        \o
        (IF dateRange = "90d" /\ RGt(participantGrowth, Num(10))
         THEN <<Insight("positive", "growth", "Participant Base Growing", SurdOf(participantGrowth), "high")>>
         ELSE <<>>)
        \o
        (IF dateRange = "90d" /\ RGt(monthlyAverage, Num(30))
         THEN <<Insight("positive", "volume", "High Quarterly Volume", SurdOf(monthlyAverage), "medium")>>
         ELSE <<>>)
        \o
        correlationInsight(sessionCorrelation)

\* the insights returned without the final sort
insightsUnsorted == pushedInsights

generateInsights == SortBy(pushedInsights, impactCmp)

periodLabel ==
    IF dateRange = "7d" THEN "week"
    ELSE IF dateRange = "30d" THEN "month"
    ELSE IF dateRange = "90d" THEN "quarter"
    ELSE "period"

summary ==
    LET sa == sessionAnalytics
        pc == periodComparison
        participants == participantCount(currentAppUsage.items)
    IN  [totalSessions |-> Len(currentAppUsage.items),
         totalParticipants |-> participants,
         totalResponses |-> Len(currentPretest.items),
         totalDemographics |-> Len(currentDemographics.items),
         averageSessionDuration |-> sa.mean,
         engagementTrend |-> sessionTrend.direction,
         periodRange |-> dateRange,
         dataQuality |->
            [sessionCompleteness |->
                RDiv(Num(Len(sessionDurations)),
                     Num(IF Len(currentAppUsage.items) > 1 THEN Len(currentAppUsage.items) ELSE 1)),
             responseRate |->
                RDiv(Num(Len(currentPretest.items)), Num(IF participants > 1 THEN participants ELSE 1))],
         comparisonMetrics |->
            [sessionChange |-> pc.sessions.change,
             durationChange |-> pc.duration.change,
             participantChange |-> pc.participants.change,
             periodLabel |-> periodLabel]]

\* the snapshot the hook returns
analytics ==
    [sessionAnalytics |-> sessionAnalytics,
     timeSeriesData |-> timeSeriesData,
     sessionTrend |-> sessionTrend,
     periodComparison |-> periodComparison,
     demographicDistribution |-> demographicDistribution,
     pretestAnalysis |-> pretestAnalysis,
     correlations |-> sessionsVsDuration,
     usagePatterns |-> usagePatterns,
     insights |-> generateInsights,
     summary |-> summary]

\* the caller's arrays after a computation that reverses the sessions in place
inputsAfterReversed ==
    LET sessions == hookIn.appUsageData.items
        n == Len(sessions)
    IN  [appUsageData |-> [hookIn.appUsageData EXCEPT !.items = [i \in 1..n |-> sessions[n + 1 - i]]],
         pretestData |-> hookIn.pretestData,
         demographicsData |-> hookIn.demographicsData]

\* the caller's three arrays after one computation: the hook reads them with filter, map,
\* reduce and forEach, which build new arrays and objects; every sort is applied to a copy
\* ([...arr]) or to an array the hook has built itself, and no record field is assigned
inputsAfter ==
    [appUsageData |-> hookIn.appUsageData,
     pretestData |-> hookIn.pretestData,
     demographicsData |-> hookIn.demographicsData]

-----------------------------------------------------------------------------
(* AnalyticsDashboard: the filters applied before the hook is called.      *)
(* demographicFilter, customDateRange, ageRange, gender, deviceType and    *)
(* sessionType keep their initial, inactive values, so their branches of   *)
(* filteredData are skipped.                                               *)

InitialUi ==
    [dateRange |-> "all",
     participantFilter |-> "all",
     sessionDuration |-> [min |-> Null, max |-> Null],
     engagement |-> "all"]

cutoffDate(range) ==
    IF range = "today" THEN Some(DayOf(now) * HoursPerDay)
    ELSE IF range = "7d" THEN Some(now - 7 * HoursPerDay)
    ELSE IF range = "30d" THEN Some(now - 30 * HoursPerDay)
    ELSE IF range = "90d" THEN Some(now - 90 * HoursPerDay)
    ELSE Null

byDate(rows, range) ==
    IF range # "all" /\ ~IsNull(cutoffDate(range))
    THEN SelectSeq(rows, LAMBDA item :
             ~IsNull(item.created_at) /\ Val(item.created_at) >= Val(cutoffDate(range)))
    ELSE rows

byParticipant(rows, participant) ==
    IF participant # "all"
    THEN SelectSeq(rows, LAMBDA item :
             ~IsNull(item.participant_number) /\ Val(item.participant_number) = participant)
    ELSE rows

\* item.session_duration || 0
sessionDurationOf(item) == IF IsNull(item.session_duration) THEN 0 ELSE Val(item.session_duration)

bySessionDuration(rows, range) ==
    IF ~IsNull(range.min) \/ ~IsNull(range.max)
    THEN SelectSeq(rows, LAMBDA item :
             /\ (IsNull(range.min) \/ sessionDurationOf(item) >= Val(range.min))
             /\ (IsNull(range.max) \/ sessionDurationOf(item) <= Val(range.max)))
    ELSE rows

byEngagement(rows, level) ==
    IF level # "all"
    THEN SelectSeq(rows, LAMBDA item :
             IF level = "high" THEN sessionDurationOf(item) >= 30
             ELSE IF level = "medium" THEN sessionDurationOf(item) >= 10 /\ sessionDurationOf(item) < 30
             ELSE IF level = "low" THEN sessionDurationOf(item) < 10
             ELSE TRUE)
    ELSE rows

filteredData(p, u) ==
    [appUsage |-> byEngagement(
                      bySessionDuration(
                          byParticipant(byDate(p.appUsageData, u.dateRange), u.participantFilter),
                          u.sessionDuration),
                      u.engagement),
     pretest |-> byParticipant(byDate(p.pretestData, u.dateRange), u.participantFilter),
     demographics |-> byParticipant(byDate(p.demographicsData, u.dateRange), u.participantFilter)]

\* useAdvancedAnalytics(filteredData.appUsage, filteredData.pretest, filteredData.demographics, dateRange)
Render(p, u) ==
    LET filtered == filteredData(p, u)
    IN  [appUsageData |-> ArrayOf(filtered.appUsage),
         pretestData |-> ArrayOf(filtered.pretest),
         demographicsData |-> ArrayOf(filtered.demographics),
         dateRange |-> u.dateRange]

-----------------------------------------------------------------------------
(* Bounds and the rows the inputs are drawn from                           *)

MaxRows == 2        \* rows over the three arrays, a repeated last session counted once
MaxRepeat == 4      \* further copies of the last session

SessionPool ==
    {Session(Some("P1"), Some(5), Some(At(2024, 10, 16, 9))),
     Session(Some("P2"), Some(40), Some(At(2024, 10, 5, 10))),
     Session(Some("P1"), Some(0), Some(now - 7 * HoursPerDay)),
     Session(Null, Null, Null),
     Session(Some("P2"), Some(20), Some(At(2024, 9, 10, 8))),
     Session(Some("P1"), Some(12), Some(At(2024, 5, 20, 15))),
     Session(Null, Some(8), Some(At(2024, 10, 15, 11))),
     Session(Some("P2"), Null, Some(At(2023, 12, 30, 20)))}

PretestPool ==
    {Row(Some("P1"), Some(At(2024, 10, 16, 8)),
         << <<"id", <<"num", 1>> >>, <<"who5_cheerful", <<"num", 3>> >>,
            <<"pss4_confident_handle", <<"num", 2>> >>, <<"is_registered_nurse", <<"bool", TRUE>> >> >>),
     Row(Some("P2"), Some(At(2024, 10, 5, 9)),
         << <<"id", <<"num", 2>> >>, <<"who5_cheerful", <<"num", 5>> >>,
            <<"pss4_unable_control", <<"num", 1>> >>, <<"is_registered_nurse", <<"bool", FALSE>> >> >>)}

DemographicPool ==
    {Row(Null, Some(At(2024, 10, 16, 8)),
         << <<"id", <<"num", 1>> >>, <<"participant_id", <<"str", "P1">> >>,
            <<"sample_code", <<"str", "S-01">> >>, <<"gender", <<"str", "F">> >> >>),
     Row(Null, Some(At(2024, 9, 10, 8)),
         << <<"id", <<"num", 2>> >>, <<"participant_id", <<"str", "P2">> >>,
            <<"sample_code", <<"null">> >>, <<"gender", <<"str", "M">> >> >>),
     Row(Null, Null,
         << <<"gender", <<"str", "F">> >>, <<"years_experience", <<"num", 5>> >> >>)}

Participants == {"P1", "P2"}
EngagementLevels == {"all", "high", "medium", "low"}
EmptyArgs == {NullArg, UndefinedArg, ArrayOf(<<>>)}

RECURSIVE Repeats(_)
\* how many trailing copies of the last element follow its first trailing occurrence
Repeats(rows) ==
    IF Len(rows) < 2 \/ rows[Len(rows)] # rows[Len(rows) - 1] THEN 0
    ELSE 1 + Repeats(SubSeq(rows, 1, Len(rows) - 1))

RowCount(sessions, pretest, demographics) ==
    (Len(sessions) - Repeats(sessions)) + Len(pretest) + Len(demographics)

InBounds(sessions, pretest, demographics) ==
    /\ RowCount(sessions, pretest, demographics) <= MaxRows
    /\ Repeats(sessions) <= MaxRepeat

-----------------------------------------------------------------------------
(* Spec: the hook called with arbitrary arguments                          *)

\* no helper has been called directly
NoCall == [fn |-> "none"]

\* no fetch has settled since the last one started
Unsettled == [outcome |-> "none"]

\* useState([]), useState(true), useState(null); no fetch started yet
InitialSource ==
    [data |-> ArrayOf(<<>>), loading |-> TRUE, error |-> Null, inFlight |-> 0, settled |-> Unsettled]

Init ==
    /\ props = [appUsageData |-> <<>>, pretestData |-> <<>>, demographicsData |-> <<>>]
    /\ ui = InitialUi
    /\ hookIn = Render(props, ui)
    /\ call = NoCall
    /\ source = InitialSource
    /\ zone = 0

HookSetDateRange(r) ==
    /\ hookIn' = [hookIn EXCEPT !.dateRange = r]
    /\ UNCHANGED <<props, ui, call, source, zone>>

HookAppendSession(s) ==
    /\ InBounds(hookIn.appUsageData.items \o <<s>>, hookIn.pretestData.items,
                hookIn.demographicsData.items)
    /\ hookIn' = [hookIn EXCEPT !.appUsageData = ArrayOf(hookIn.appUsageData.items \o <<s>>)]
    /\ UNCHANGED <<props, ui, call, source, zone>>

HookAppendPretest(r) ==
    /\ InBounds(hookIn.appUsageData.items, hookIn.pretestData.items \o <<r>>,
                hookIn.demographicsData.items)
    /\ hookIn' = [hookIn EXCEPT !.pretestData = ArrayOf(hookIn.pretestData.items \o <<r>>)]
    /\ UNCHANGED <<props, ui, call, source, zone>>

HookAppendDemographic(r) ==
    /\ InBounds(hookIn.appUsageData.items, hookIn.pretestData.items,
                hookIn.demographicsData.items \o <<r>>)
    /\ hookIn' = [hookIn EXCEPT !.demographicsData = ArrayOf(hookIn.demographicsData.items \o <<r>>)]
    /\ UNCHANGED <<props, ui, call, source, zone>>

Next ==
    \/ \E r \in DateRanges : HookSetDateRange(r)
    \/ \E s \in SessionPool : HookAppendSession(s)
    \/ \E r \in PretestPool : HookAppendPretest(r)
    \/ \E r \in DemographicPool : HookAppendDemographic(r)

Spec == Init /\ [][Next]_vars

-----------------------------------------------------------------------------
(* SpecEmpty: the hook called with null, undefined or [] for each array    *)

HookClearSessions(a) ==
    /\ hookIn' = [hookIn EXCEPT !.appUsageData = a]
    /\ UNCHANGED <<props, ui, call, source, zone>>

HookClearPretest(a) ==
    /\ hookIn' = [hookIn EXCEPT !.pretestData = a]
    /\ UNCHANGED <<props, ui, call, source, zone>>

HookClearDemographics(a) ==
    /\ hookIn' = [hookIn EXCEPT !.demographicsData = a]
    /\ UNCHANGED <<props, ui, call, source, zone>>

NextEmpty ==
    \/ \E r \in DateRanges : HookSetDateRange(r)
    \/ \E a \in EmptyArgs : HookClearSessions(a)
    \/ \E a \in EmptyArgs : HookClearPretest(a)
    \/ \E a \in EmptyArgs : HookClearDemographics(a)

SpecEmpty == Init /\ [][NextEmpty]_vars

-----------------------------------------------------------------------------
(* SpecSource: one useSupabaseData instance. fetchData runs on mount, on   *)
(* every tick of the refresh interval and on every realtime change, so a   *)
(* fetch can start while another awaits its response. source.inFlight      *)
(* counts the fetches awaiting a response; source.settled records the      *)
(* fetch that settled last: its outcome and the data before it settled.    *)

MaxInFlight == 3

\* what the query resolves to as data: null, no rows, or rows
QueryResults ==
    {NullArg, ArrayOf(<<>>),
     ArrayOf(<<Session(Some("P1"), Some(5), Some(At(2024, 10, 16, 9)))>>),
     ArrayOf(<<Session(Some("P2"), Some(40), Some(At(2024, 10, 5, 10))),
               Session(Some("P1"), Some(5), Some(At(2024, 10, 16, 9)))>>)}

Messages == {"Failed to fetch", "permission denied for table app_usage_sessions"}

\* fetchData up to its await: setLoading(true); setError(null); the query is sent
fetchData ==
    /\ source.inFlight < MaxInFlight
    /\ source' = [source EXCEPT !.loading = TRUE, !.error = Null, !.inFlight = @ + 1,
                                !.settled = Unsettled]
    /\ UNCHANGED <<hookIn, props, ui, call, zone>>

\* the await returns without an error: setData(result || []); setLoading(false)
fetchResolved(result) ==
    /\ source.inFlight > 0
    /\ source' = [source EXCEPT !.data = OrEmpty(result), !.loading = FALSE, !.inFlight = @ - 1,
                                !.settled = [outcome |-> "success", result |-> result,
                                             before |-> source.data]]
    /\ UNCHANGED <<hookIn, props, ui, call, zone>>

\* the await returns an error or throws: setError(err.message); setLoading(false)
fetchRejected(message) ==
    /\ source.inFlight > 0
    /\ source' = [source EXCEPT !.error = Some(message), !.loading = FALSE, !.inFlight = @ - 1,
                                !.settled = [outcome |-> "failure", message |-> message,
                                             before |-> source.data]]
    /\ UNCHANGED <<hookIn, props, ui, call, zone>>

NextSource ==
    \/ fetchData
    \/ \E result \in QueryResults : fetchResolved(result)
    \/ \E message \in Messages : fetchRejected(message)

SpecSource == Init /\ [][NextSource]_vars

-----------------------------------------------------------------------------
(* SpecRace: one useSupabaseData instance with every call of fetchData     *)
(* told apart. source.fetches lists the calls in the order they started,   *)
(* each one pending, succeeded with its result or failed with its message; *)
(* source.arrived lists the settled calls in the order their responses     *)
(* arrived. Nothing in the hook ties a response to the latest call, so any *)
(* pending call may settle next.                                           *)

MaxFetches == 3

Pending == [state |-> "pending"]

InitRace ==
    /\ props = [appUsageData |-> <<>>, pretestData |-> <<>>, demographicsData |-> <<>>]
    /\ ui = InitialUi
    /\ hookIn = Render(props, ui)
    /\ call = NoCall
    /\ source = [data |-> ArrayOf(<<>>), loading |-> TRUE, error |-> Null,
                 fetches |-> <<>>, arrived |-> <<>>]
    /\ zone = 0

PendingFetches == {i \in 1..Len(source.fetches) : source.fetches[i] = Pending}

\* a call of fetchData up to its await: setLoading(true); setError(null); the query is sent
fetchDataCalled ==
    /\ Len(source.fetches) < MaxFetches
    /\ source' = [source EXCEPT !.loading = TRUE, !.error = Null,
                                !.fetches = Append(@, Pending)]
    /\ UNCHANGED <<hookIn, props, ui, call, zone>>

\* the await of call i returns without an error: setData(result || []); setLoading(false)
fetchDataResolved(i, result) ==
    /\ i \in PendingFetches
    /\ source' = [source EXCEPT !.data = OrEmpty(result), !.loading = FALSE,
                                !.fetches[i] = [state |-> "success", result |-> result],
                                !.arrived = Append(@, i)]
    /\ UNCHANGED <<hookIn, props, ui, call, zone>>

\* the await of call i returns an error or throws: setError(err.message); setLoading(false)
fetchDataRejected(i, message) ==
    /\ i \in PendingFetches
    /\ source' = [source EXCEPT !.error = Some(message), !.loading = FALSE,
                                !.fetches[i] = [state |-> "failure", message |-> message],
                                !.arrived = Append(@, i)]
    /\ UNCHANGED <<hookIn, props, ui, call, zone>>

fetchDataSettled ==
    \E i \in 1..MaxFetches :
        \/ \E result \in QueryResults : fetchDataResolved(i, result)
        \/ \E message \in Messages : fetchDataRejected(i, message)

NextRace == fetchDataCalled \/ fetchDataSettled

SpecRace == InitRace /\ [][NextRace]_vars

\* the mount effect calls fetchData, and an awaited query settles: with its rows, with an
\* error of the backend or with a network failure
SpecRaceFair == SpecRace /\ WF_vars(fetchDataCalled) /\ WF_vars(fetchDataSettled)

-----------------------------------------------------------------------------
(* EnhancedDataTable: one table of type 'pretest'. props.data is the data  *)
(* prop; ui holds the component's state: searchTerm, currentPage, sortBy,  *)
(* sortOrder, dateFilter and groupFilter. Texts are code-unit sequences.   *)

itemsPerPage == 10

\* text.toLowerCase() for texts of ASCII letters, digits and punctuation
toLowerCase(text) == [i \in 1..Len(text) |-> IF text[i] \in 65..90 THEN text[i] + 32 ELSE text[i]]

\* the start of the ISO text of a timestamp, up to the hour: YYYY-MM-DDTHH
createdAtText(t) ==
    Digits(getFullYear(t)) \o <<45>> \o Pad2(getMonth(t) + 1) \o <<45>> \o Pad2(getDate(t))
        \o <<84>> \o Pad2(t % HoursPerDay)

\* the timestamps of the rows the table is given, with their texts computed once
TableTimes == {now - i : i \in 1..2} \cup {now - i * HoursPerDay : i \in 1..49}
CreatedAtTexts == Tabulate([t \in TableTimes |-> createdAtText(t)])
createdAtTextOf(t) == IF t \in TableTimes THEN CreatedAtTexts[t] ELSE createdAtText(t)

\* Object.values(item) as texts, null and undefined values left out
tableValues(item) ==
    <<item.participant_number>>
    \o (IF IsNull(item.group) THEN <<>> ELSE <<Val(item.group)>>)
    \o (IF IsNull(item.created_at) THEN <<>> ELSE <<createdAtTextOf(Val(item.created_at))>>)

searchMatch(item, term) ==
    LET values == tableValues(item)
        lower == toLowerCase(term) \o <<>>
    IN  \E k \in 1..Len(values) :
            /\ values[k] # <<>>
            /\ Includes(toLowerCase(values[k]) \o <<>>, lower)

dateMatch(item, filter) ==
    IF filter # "all" /\ ~IsNull(item.created_at)
    THEN CASE filter = "today" -> toDateString(Val(item.created_at)) = toDateString(now)
           [] filter = "week" -> Val(item.created_at) >= now - 7 * HoursPerDay
           [] filter = "month" -> Val(item.created_at) >= now - 30 * HoursPerDay
           [] OTHER -> TRUE
    ELSE TRUE

groupMatch(item, filter) ==
    IF filter # "all" /\ ~IsNull(item.group) /\ Val(item.group) # <<>>
    THEN Val(item.group) = filter
    ELSE TRUE

\* the comparator of filtered.sort: texts are compared in lower case, unit by unit
tableCompare(a, b, field, order) ==
    LET aVal == IF field = "created_at" THEN createdAtTextOf(Val(a.created_at))
                ELSE toLowerCase(a.participant_number)
        bVal == IF field = "created_at" THEN createdAtTextOf(Val(b.created_at))
                ELSE toLowerCase(b.participant_number)
        c == localeCompare(aVal, bVal)
    IN  IF c < 0 THEN (IF order = "asc" THEN -1 ELSE 1)
        ELSE IF c > 0 THEN (IF order = "asc" THEN 1 ELSE -1)
        ELSE 0

processedData(data, u) ==
    IF Len(data) = 0 THEN <<>>
    ELSE LET filtered == SelectSeq(data, LAMBDA item :
                             /\ searchMatch(item, u.searchTerm)
                             /\ dateMatch(item, u.dateFilter)
                             /\ groupMatch(item, u.groupFilter))
         IN  IF ~IsNull(u.sortBy)
             THEN SortBy(filtered, LAMBDA a, b : tableCompare(a, b, Val(u.sortBy), u.sortOrder))
             ELSE filtered

\* Math.ceil(processedData.length / itemsPerPage)
totalPages(data, u) == (Len(processedData(data, u)) + itemsPerPage - 1) \div itemsPerPage

\* processedData.slice((currentPage - 1) * itemsPerPage, currentPage * itemsPerPage)
currentData(data, u) ==
    LET rows == processedData(data, u)
        from == (u.currentPage - 1) * itemsPerPage + 1
        to == IF u.currentPage * itemsPerPage < Len(rows) THEN u.currentPage * itemsPerPage
              ELSE Len(rows)
    IN  IF from > to THEN <<>> ELSE SubSeq(rows, from, to)

-----------------------------------------------------------------------------
(* SpecTable: the user's clicks and inputs on one table, and refreshes of  *)
(* its data.                                                               *)

TextP == <<80>>
TextControl == <<67, 111, 110, 116, 114, 111, 108>>
TextIntervention == <<73, 110, 116, 101, 114, 118, 101, 110, 116, 105, 111, 110>>

\* row i of the table, newest first: two rows of today, then one row a day; every fifth
\* response has no group
TableRow(i) ==
    [participant_number |-> TextP \o Digits(i),
     group |-> IF i % 5 = 0 THEN Null
               ELSE IF i % 2 = 0 THEN Some(TextControl) ELSE Some(TextIntervention),
     created_at |-> Some(IF i <= 2 THEN now - i ELSE now - (i - 2) * HoursPerDay)]

DataSizes == {0, 4, 12, 51}
\* '', 'P1', 'control' and 'zz'
SearchTerms == {<<>>, <<80, 49>>, <<99, 111, 110, 116, 114, 111, 108>>, <<122, 122>>}
DateFilters == {"all", "today", "week", "month"}
GroupFilters == {"all", TextIntervention, TextControl}
SortFields == {"participant_number", "created_at"}

InitialTable ==
    [searchTerm |-> <<>>, currentPage |-> 1, sortBy |-> Null, sortOrder |-> "asc",
     dateFilter |-> "all", groupFilter |-> "all"]

InitTable ==
    /\ props = [data |-> <<>>]
    /\ ui = InitialTable
    /\ hookIn = Render([appUsageData |-> <<>>, pretestData |-> <<>>, demographicsData |-> <<>>],
                       InitialUi)
    /\ call = NoCall
    /\ source = InitialSource
    /\ zone = 0

\* the parent renders the table with newly fetched data
dataRefreshed(n) ==
    /\ props' = [data |-> [i \in 1..n |-> TableRow(i)]]
    /\ UNCHANGED <<ui, hookIn, call, source, zone>>

setSearchTerm(term) ==
    /\ ui' = [ui EXCEPT !.searchTerm = term]
    /\ UNCHANGED <<props, hookIn, call, source, zone>>

setDateFilter(filter) ==
    /\ ui' = [ui EXCEPT !.dateFilter = filter]
    /\ UNCHANGED <<props, hookIn, call, source, zone>>

setGroupFilter(filter) ==
    /\ ui' = [ui EXCEPT !.groupFilter = filter]
    /\ UNCHANGED <<props, hookIn, call, source, zone>>

handleSort(field) ==
    /\ ui' = IF ui.sortBy = Some(field)
             THEN [ui EXCEPT !.sortOrder = IF ui.sortOrder = "asc" THEN "desc" ELSE "asc"]
             ELSE [ui EXCEPT !.sortBy = Some(field), !.sortOrder = "asc"]
    /\ UNCHANGED <<props, hookIn, call, source, zone>>

\* the 'Clear all' button of the active-filters bar
clearAll ==
    /\ ui.searchTerm # <<>> \/ ui.dateFilter # "all" \/ ui.groupFilter # "all"
    /\ ui' = [ui EXCEPT !.searchTerm = <<>>, !.dateFilter = "all", !.groupFilter = "all",
                        !.currentPage = 1]
    /\ UNCHANGED <<props, hookIn, call, source, zone>>

\* the pagination controls, rendered when totalPages > 1
previousPage(total) ==
    /\ total > 1
    /\ ui.currentPage # 1
    /\ ui' = [ui EXCEPT !.currentPage = IF ui.currentPage - 1 > 1 THEN ui.currentPage - 1 ELSE 1]
    /\ UNCHANGED <<props, hookIn, call, source, zone>>

nextPage(total) ==
    /\ total > 1
    /\ ui.currentPage # total
    /\ ui' = [ui EXCEPT !.currentPage = IF ui.currentPage + 1 < total THEN ui.currentPage + 1 ELSE total]
    /\ UNCHANGED <<props, hookIn, call, source, zone>>

pageClicked(total, pageNum) ==
    /\ total > 1
    /\ pageNum <= (IF total < 5 THEN total ELSE 5)
    /\ ui' = [ui EXCEPT !.currentPage = pageNum]
    /\ UNCHANGED <<props, hookIn, call, source, zone>>

lastPageClicked(total) ==
    /\ total > 5
    /\ ui' = [ui EXCEPT !.currentPage = total]
    /\ UNCHANGED <<props, hookIn, call, source, zone>>

NextTable ==
    LET total == totalPages(props.data, ui)
    IN  \/ \E n \in DataSizes : dataRefreshed(n)
        \/ \E term \in SearchTerms : setSearchTerm(term)
        \/ \E filter \in DateFilters : setDateFilter(filter)
        \/ \E filter \in GroupFilters : setGroupFilter(filter)
        \/ \E field \in SortFields : handleSort(field)
        \/ clearAll
        \/ previousPage(total)
        \/ nextPage(total)
        \/ \E pageNum \in 1..5 : pageClicked(total, pageNum)
        \/ lastPageClicked(total)

SpecTable == InitTable /\ [][NextTable]_vars

-----------------------------------------------------------------------------
(* SpecFrame: the hook's arguments are built up as in Spec, then one       *)
(* computation runs and leaves the caller's arrays as inputsAfter says     *)

useAdvancedAnalytics ==
    /\ call = NoCall
    /\ call' = [fn |-> "useAdvancedAnalytics", before |-> hookIn]
    /\ hookIn' = [hookIn EXCEPT !.appUsageData = inputsAfter.appUsageData,
                                !.pretestData = inputsAfter.pretestData,
                                !.demographicsData = inputsAfter.demographicsData]
    /\ UNCHANGED <<props, ui, source, zone>>

NextFrame ==
    \/ call = NoCall /\ Next
    \/ useAdvancedAnalytics

SpecFrame == Init /\ [][NextFrame]_vars

-----------------------------------------------------------------------------
(* SpecTrend: the hook called with sessions spread over several days, the  *)
(* sessions arriving in the order of their dates                           *)

MaxBuckets == 4     \* distinct session days
MaxCount == 3       \* sessions on one day

\* the k-th session day: every fifth day of October 2024, at 10:00
TrendDay(k) == At(2024, 10, 1, 10) + (k - 1) * 5 * HoursPerDay

TrendSession(k) == Session(Some("P1"), Some(5), Some(TrendDay(k)))

HookAppendDatedSession(k) ==
    LET sessions == hookIn.appUsageData.items
    IN  /\ \A i \in 1..Len(sessions) : Val(sessions[i].created_at) <= TrendDay(k)
        /\ Cardinality({i \in 1..Len(sessions) : sessions[i] = TrendSession(k)}) < MaxCount
        /\ hookIn' = [hookIn EXCEPT !.appUsageData = ArrayOf(sessions \o <<TrendSession(k)>>)]
        /\ UNCHANGED <<props, ui, call, source, zone>>

NextTrend ==
    \/ \E r \in DateRanges : HookSetDateRange(r)
    \/ \E k \in 1..MaxBuckets : HookAppendDatedSession(k)

SpecTrend == Init /\ [][NextTrend]_vars

-----------------------------------------------------------------------------
(* SpecFeatures: the hook and the charts given sessions of two             *)
(* participants whose durations are positive, zero or missing; the         *)
(* sessions arrive kind by kind, up to MaxCount of each kind               *)

FeaturePool ==
    <<Session(Some("P1"), Some(5), Some(At(2024, 10, 16, 9))),
      Session(Some("P1"), Some(0), Some(At(2024, 10, 15, 9))),
      Session(Some("P2"), Some(40), Some(At(2024, 10, 5, 10))),
      Session(Some("P2"), Some(20), Some(At(2024, 9, 10, 8))),
      Session(Some("P2"), Null, Some(At(2024, 10, 6, 10)))>>

HookAppendFeatureSession(k) ==
    LET sessions == hookIn.appUsageData.items
    IN  /\ \A i \in 1..Len(sessions) : \E j \in 1..k : sessions[i] = FeaturePool[j]
        /\ Cardinality({i \in 1..Len(sessions) : sessions[i] = FeaturePool[k]}) < MaxCount
        /\ hookIn' = [hookIn EXCEPT !.appUsageData = ArrayOf(sessions \o <<FeaturePool[k]>>)]
        /\ UNCHANGED <<props, ui, call, source, zone>>

NextFeatures == \E k \in 1..Len(FeaturePool) : HookAppendFeatureSession(k)

SpecFeatures == Init /\ [][NextFeatures]_vars

-----------------------------------------------------------------------------
(* SpecDash: the analytics view; every state change re-renders and calls   *)
(* the hook with the filtered arrays.                                      *)

Rerender == hookIn' = Render(props', ui') /\ UNCHANGED <<call, source, zone>>

DataAppendSession(s) ==
    /\ InBounds(props.appUsageData \o <<s>>, props.pretestData, props.demographicsData)
    /\ Repeats(props.appUsageData \o <<s>>) = 0
    /\ props' = [props EXCEPT !.appUsageData = props.appUsageData \o <<s>>]
    /\ UNCHANGED ui
    /\ Rerender

DataAppendPretest(r) ==
    /\ InBounds(props.appUsageData, props.pretestData \o <<r>>, props.demographicsData)
    /\ props' = [props EXCEPT !.pretestData = props.pretestData \o <<r>>]
    /\ UNCHANGED ui
    /\ Rerender

DataAppendDemographic(r) ==
    /\ InBounds(props.appUsageData, props.pretestData, props.demographicsData \o <<r>>)
    /\ props' = [props EXCEPT !.demographicsData = props.demographicsData \o <<r>>]
    /\ UNCHANGED ui
    /\ Rerender

setDateRange(r) ==
    /\ ui' = [ui EXCEPT !.dateRange = r]
    /\ UNCHANGED props
    /\ Rerender

setParticipantFilter(p) ==
    /\ ui' = [ui EXCEPT !.participantFilter = p]
    /\ UNCHANGED props
    /\ Rerender

updateFilterEngagement(level) ==
    /\ ui' = [ui EXCEPT !.engagement = level]
    /\ UNCHANGED props
    /\ Rerender

clearAllFilters ==
    /\ ui' = InitialUi
    /\ UNCHANGED props
    /\ Rerender

NextDash ==
    \/ \E s \in SessionPool : DataAppendSession(s)
    \/ \E r \in PretestPool : DataAppendPretest(r)
    \/ \E r \in DemographicPool : DataAppendDemographic(r)
    \/ \E r \in DateRanges : setDateRange(r)
    \/ \E p \in Participants \cup {"all"} : setParticipantFilter(p)
    \/ \E level \in EngagementLevels : updateFilterEngagement(level)
    \/ clearAllFilters

SpecDash == Init /\ [][NextDash]_vars

-----------------------------------------------------------------------------
(* SpecFilters: the analytics view with the participant, engagement and    *)
(* session-duration filters; the date range keeps its initial value.       *)

\* what the two number inputs of the session-duration filter can hold:
\* e.target.value ? parseInt(e.target.value) : null
DurationInputs == {Null, Some(10), Some(30)}

updateFilterSessionDurationMin(value) ==
    /\ ui' = [ui EXCEPT !.sessionDuration.min = value]
    /\ UNCHANGED props
    /\ Rerender

updateFilterSessionDurationMax(value) ==
    /\ ui' = [ui EXCEPT !.sessionDuration.max = value]
    /\ UNCHANGED props
    /\ Rerender

NextFilters ==
    \/ \E s \in SessionPool : DataAppendSession(s)
    \/ \E r \in PretestPool : DataAppendPretest(r)
    \/ \E r \in DemographicPool : DataAppendDemographic(r)
    \/ \E p \in Participants \cup {"all"} : setParticipantFilter(p)
    \/ \E level \in EngagementLevels : updateFilterEngagement(level)
    \/ \E value \in DurationInputs : updateFilterSessionDurationMin(value)
    \/ \E value \in DurationInputs : updateFilterSessionDurationMax(value)
    \/ clearAllFilters

SpecFilters == Init /\ [][NextFilters]_vars

-----------------------------------------------------------------------------
(* Dashboard: the PSS-4 Stress Level card of the overview, drawn from the  *)
(* pretest responses; groupFilter is 'all', so filteredData.pretestData is *)
(* the fetched array.                                                      *)

\* value.toFixed(1): the decimal with one fractional digit nearest to value
toFixed1(value) == RDiv(Floor(RAdd(RMul(value, Num(10)), Frac(1, 2))), Num(10))

\* the summand of the reduce
pss4Composite(p) ==
    FieldValue(p, "pss4_unable_control")[2] + (5 - FieldValue(p, "pss4_confident_handle")[2])
        + (5 - FieldValue(p, "pss4_going_your_way")[2]) + FieldValue(p, "pss4_difficulties_piling")[2]

RECURSIVE pss4Sum(_)
pss4Sum(rows) ==
    IF rows = <<>> THEN 0 ELSE pss4Sum(SubSeq(rows, 1, Len(rows) - 1)) + pss4Composite(rows[Len(rows)])

\* the Average Score shown: Null stands for the placeholder '...' of an empty array
pss4AverageScore(rows) ==
    IF Len(rows) = 0 THEN Null ELSE Some(toFixed1(Frac(pss4Sum(rows), Len(rows))))

-----------------------------------------------------------------------------
(* SpecStress: pretest responses with the four PSS-4 items arrive one by   *)
(* one.                                                                    *)

MaxResponses == 2
ItemScores == {0, 2, 4}

StressResponse(unable, confident, going, piling) ==
    Row(Some("P1"), Some(At(2024, 10, 16, 8)),
        << <<"pss4_unable_control", <<"num", unable>> >>,
           <<"pss4_confident_handle", <<"num", confident>> >>,
           <<"pss4_going_your_way", <<"num", going>> >>,
           <<"pss4_difficulties_piling", <<"num", piling>> >> >>)

DataAppendStressResponse(r) ==
    /\ Len(props.pretestData) < MaxResponses
    /\ props' = [props EXCEPT !.pretestData = props.pretestData \o <<r>>]
    /\ UNCHANGED ui
    /\ Rerender

NextStress ==
    \E unable, confident, going, piling \in ItemScores :
        DataAppendStressResponse(StressResponse(unable, confident, going, piling))

SpecStress == Init /\ [][NextStress]_vars

-----------------------------------------------------------------------------
(* StatisticalCharts: the cohort retention chart. The component receives   *)
(* the array the hook receives. A participant_number carries its           *)
(* JavaScript type here: <<"str", text>> with the text a sequence of code  *)
(* units, or <<"num", n>>.                                                 *)

\* the key an object stores a property under: String(v)
PropertyKey(v) == IF v[1] = "num" THEN Digits(v[2]) ELSE v[2]

\* v === key, the key being a string
StrictEqualsKey(v, key) == v[1] = "str" /\ v[2] = key

\* date.toISOString().split('T')[0]: the calendar date in UTC
toISODate(t) ==
    LET u == t - zone
    IN  Digits(getFullYear(u)) \o <<45>> \o Pad2(getMonth(u) + 1) \o <<45>> \o Pad2(getDate(u))

\* new Date('YYYY-MM-DD'): midnight UTC of that date
parseISODate(key) ==
    At(ParseNat(SubSeq(key, 1, 4)), ParseNat(SubSeq(key, 6, 7)), ParseNat(SubSeq(key, 9, 10)), 0) + zone

MinCohortSessions == 20
MaxCohorts == 8
RetentionWeeks == 4
DaysPerWeek == 7

\* sessions that name a participant and a date
cohortSessions(sessions) ==
    {i \in 1..Len(sessions) :
        ~IsNull(sessions[i].participant_number) /\ ~IsNull(sessions[i].created_at)}

\* participantFirstSession: the earliest session date under every participant key
participantFirstSession(sessions) ==
    LET dated == cohortSessions(sessions)
        keys == {PropertyKey(Val(sessions[i].participant_number)) : i \in dated}
    IN  Tabulate([k \in keys |->
            LET own == {Val(sessions[i].created_at) :
                            i \in {j \in dated : PropertyKey(Val(sessions[j].participant_number)) = k}}
            IN  CHOOSE t \in own : \A o \in own : t <= o])

\* the cohort key of a first session: the ISO date of the start of its week
cohortKeyOf(firstDate) == toISODate(setDate(firstDate, getDate(firstDate) - getDay(firstDate)))

\* cohorts: the participant keys under every cohort key
cohortsOf(firstSession) ==
    LET keyOf == Tabulate([p \in DOMAIN firstSession |-> cohortKeyOf(firstSession[p])])
        keys == {keyOf[p] : p \in DOMAIN firstSession}
    IN  Tabulate([c \in keys |-> {p \in DOMAIN firstSession : keyOf[p] = c}])

RECURSIVE SeqOfSet(_)
SeqOfSet(S) == IF S = {} THEN <<>> ELSE LET x == CHOOSE y \in S : TRUE IN <<x>> \o SeqOfSet(S \ {x})

\* Object.keys(cohorts).sort().slice(0, 8)
cohortLabelsOf(cohorts) ==
    LET sorted == SortBy(SeqOfSet(DOMAIN cohorts), localeCompare)
    IN  SubSeq(sorted, 1, IF Len(sorted) < MaxCohorts THEN Len(sorted) ELSE MaxCohorts)

\* the participants of a cohort with a session in the week-th week after its start
activeCount(sessions, members, cohortKey, week) ==
    LET weekDate == parseISODate(cohortKey) + week * DaysPerWeek * HoursPerDay
    IN  Cardinality({p \in members :
            \E i \in 1..Len(sessions) :
                /\ ~IsNull(sessions[i].participant_number)
                /\ StrictEqualsKey(Val(sessions[i].participant_number), p)
                /\ ~IsNull(sessions[i].created_at)
                /\ Val(sessions[i].created_at) >= weekDate
                /\ Val(sessions[i].created_at) < weekDate + DaysPerWeek * HoursPerDay})

retentionOf(sessions, members, cohortKey) ==
    <<Num(100)>> \o
        [week \in 1..RetentionWeeks |->
            RMul(RDiv(Num(activeCount(sessions, members, cohortKey, week)), Num(Cardinality(members))),
                 Num(100))]

cohortData ==
    LET arg == hookIn.appUsageData
        sessions == arg.items
    IN  IF ~IsArray(arg) \/ Len(sessions) < MinCohortSessions THEN Null
        ELSE LET cohorts == cohortsOf(participantFirstSession(sessions))
                 cohortLabels == cohortLabelsOf(cohorts)
             IN  Some([i \in 1..Len(cohortLabels) |->
                        [cohort |-> cohortLabels[i],
                         data |-> retentionOf(sessions, cohorts[cohortLabels[i]], cohortLabels[i])]])

-----------------------------------------------------------------------------
(* StatisticalCharts: the histogram of session durations. A call ends with *)
(* null, with the bin counts, or with the TypeError raised by              *)
(* bins[binIndex].count++ when bins[binIndex] is undefined.                *)

MaxBins == 15

\* Math.ceil(Math.sqrt(n)) for a non-negative integer n
CeilSqrt(n) == CHOOSE k \in 0..n : k * k >= n /\ \A j \in 0..(k - 1) : j * j < n

\* Math.min(Math.floor(q), last): NaN when q is NaN
binIndexOf(q, last) ==
    IF IsNaN(q) THEN NaN
    ELSE IF ~IsFinite(q) THEN (IF q[1] > 0 THEN Num(last) ELSE q)
    ELSE IF RLt(Floor(q), Num(last)) THEN Floor(q) ELSE Num(last)

histogramData ==
    LET arg == hookIn.appUsageData
    IN  IF ~IsArray(arg) THEN [outcome |-> "null"]
        ELSE LET durations == usableDurations(arg.items)
             IN  IF Len(durations) = 0 THEN [outcome |-> "null"]
                 ELSE LET min == MinOf(durations)
                          max == MaxOf(durations)
                          sqrtCount == CeilSqrt(Len(durations))
                          binCount == IF sqrtCount < MaxBins THEN sqrtCount ELSE MaxBins
                          binSize == RDiv(RSub(max, min), Num(binCount))
                          binIndex == [i \in 1..Len(durations) |->
                                          binIndexOf(RDiv(RSub(durations[i], min), binSize),
                                                     binCount - 1)] \o <<>>
                          defined(index) ==
                              IsFinite(index) /\ RGe(index, Num(0)) /\ RLt(index, Num(binCount))
                      IN  IF \E i \in 1..Len(durations) : ~defined(binIndex[i])
                          THEN [outcome |-> "TypeError"]
                          ELSE [outcome |-> "chart",
                                binIndex |-> binIndex,
                                data |-> [b \in 1..binCount |->
                                            Cardinality({i \in 1..Len(durations) :
                                                            binIndex[i] = Num(b - 1)})]]

-----------------------------------------------------------------------------
(* StatisticalCharts: the scatter chart of session count against average   *)
(* duration per participant                                                *)

MinScatterSessions == 10

\* sessions with a truthy participant_number and a duration_minutes that is not null
scatterSessions(sessions) ==
    SelectSeq(sessions, LAMBDA s : ~IsNull(s.participant_number) /\ ~IsNull(s.duration_minutes))

\* Object.values(participantData) of correlationData
scatterParticipantData(sessions) ==
    LET features == scatterSessions(sessions)
        ids == FirstSeen([i \in 1..Len(features) |-> Val(features[i].participant_number)])
    IN  [k \in 1..Len(ids) |->
            LET own == SelectSeq(features, LAMBDA s : Val(s.participant_number) = ids[k])
                total == SumSeq([i \in 1..Len(own) |-> Num(Val(own[i].duration_minutes))])
            IN  [participant |-> ids[k],
                 sessionCount |-> Len(own),
                 totalDuration |-> total,
                 avgDuration |-> RDiv(total, Num(Len(own)))]] \o <<>>

\* the points of the scatter chart, null below 10 sessions
correlationData ==
    LET arg == hookIn.appUsageData
    IN  IF ~IsArray(arg) \/ Len(arg.items) < MinScatterSessions THEN Null
        ELSE LET participants == scatterParticipantData(arg.items)
             IN  Some([k \in 1..Len(participants) |->
                        [x |-> Num(participants[k].sessionCount), y |-> participants[k].avgDuration]])

-----------------------------------------------------------------------------
(* SpecCohort: the chart over sessions of participants who join week after *)
(* week; the first two join in the same week.                              *)

MaxParticipants == 9
Zones == {-5, 0, 9}
ParticipantTypes == {"str", "num"}
ParticipantKinds == {"once", "returns"}

\* the p-th participant: 'P<p>' as a text, 100 + p as a number
ParticipantOf(p, type) == IF type = "num" THEN <<"num", 100 + p>> ELSE <<"str", <<80>> \o Digits(p)>>

JoinWeek(p) == IF p = 1 THEN 1 ELSE p - 1

\* first session of the p-th participant: a weekday of the join week, early or late in the day
FirstSessionAt(p) ==
    At(2024, 7, 28, 0) + (JoinWeek(p) * DaysPerWeek + (p % DaysPerWeek)) * HoursPerDay
        + (IF p % 2 = 1 THEN 7 ELSE 22)

\* the sessions of the p-th participant: two in the first week, or one in each of weeks 0, 1 and 3
ParticipantSessions(p, type, kind) ==
    LET who == Some(ParticipantOf(p, type))
        first == FirstSessionAt(p)
    IN  IF kind = "once"
        THEN <<Session(who, Some(5), Some(first)), Session(who, Some(5), Some(first + 1))>>
        ELSE <<Session(who, Some(5), Some(first)),
               Session(who, Some(5), Some(first + DaysPerWeek * HoursPerDay + 1)),
               Session(who, Some(5), Some(first + 3 * DaysPerWeek * HoursPerDay))>>

ParticipantsJoined(sessions) ==
    Cardinality({sessions[i].participant_number : i \in 1..Len(sessions)})

InitCohort ==
    /\ props = [appUsageData |-> <<>>, pretestData |-> <<>>, demographicsData |-> <<>>]
    /\ ui = InitialUi
    /\ hookIn = Render(props, ui)
    /\ call = NoCall
    /\ source = InitialSource
    /\ zone \in Zones

ChartAppendParticipant(type, kind) ==
    LET sessions == hookIn.appUsageData.items
        p == ParticipantsJoined(sessions) + 1
    IN  /\ p <= MaxParticipants
        /\ \A i \in 1..Len(sessions) : Val(sessions[i].participant_number)[1] = type
        /\ hookIn' = [hookIn EXCEPT
                !.appUsageData = ArrayOf(sessions \o ParticipantSessions(p, type, kind))]
        /\ UNCHANGED <<props, ui, call, source, zone>>

NextCohort == \E type \in ParticipantTypes, kind \in ParticipantKinds : ChartAppendParticipant(type, kind)

SpecCohort == InitCohort /\ [][NextCohort]_vars

-----------------------------------------------------------------------------
(* SpecCalls: one direct call of a statistical helper with small arrays    *)

MaxLen == 5         \* length of the array given to median and percentile
MaxPairLen == 3     \* length of the arrays given to correlation
MaxValue == 3       \* the array elements are 0..MaxValue

CallValues == {Num(v) : v \in 0..MaxValue}
ArraysUpTo(n) == UNION {[1..k -> CallValues] : k \in 0..n}
Percentages == {0, 25, 50, 75, 90, 95, 100}

CallMedian(arr) ==
    /\ call = NoCall
    /\ call' = [fn |-> "median", arr |-> arr, after |-> medianCall(arr).arr,
                result |-> medianCall(arr).result]
    /\ UNCHANGED <<hookIn, props, ui, source, zone>>

CallPercentile(arr, p) ==
    /\ call = NoCall
    /\ call' = [fn |-> "percentile", arr |-> arr, p |-> p, result |-> percentile(arr, p)]
    /\ UNCHANGED <<hookIn, props, ui, source, zone>>

CallCorrelation(x, y) ==
    /\ call = NoCall
    /\ LET coefficient == correlation(x, y)
            entry == [coefficient |-> coefficient, strength |-> strengthOf(coefficient)]
       IN  call' = [fn |-> "correlation", x |-> x, y |-> y, result |-> coefficient,
                    strength |-> entry.strength, insights |-> correlationInsight(Some(entry))]
    /\ UNCHANGED <<hookIn, props, ui, source, zone>>

NextCalls ==
    \/ \E arr \in ArraysUpTo(MaxLen) : CallMedian(arr)
    \/ \E arr \in ArraysUpTo(MaxLen), p \in Percentages : CallPercentile(arr, p)
    \/ \E x \in ArraysUpTo(MaxPairLen), y \in ArraysUpTo(MaxPairLen) : CallCorrelation(x, y)

SpecCalls == Init /\ [][NextCalls]_vars

-----------------------------------------------------------------------------
(* Readings of the inputs used by the properties, independent of the hook  *)

HookSessions == OrEmpty(hookIn.appUsageData).items

WindowDays(label) == IF label = "7d" THEN 7 ELSE IF label = "30d" THEN 30 ELSE IF label = "90d" THEN 90 ELSE 1

\* created_at in [now - 2W, now - W)
InPreviousWindow(s, label) ==
    /\ ~IsNull(s.created_at)
    /\ Val(s.created_at) >= now - 2 * WindowDays(label) * HoursPerDay
    /\ Val(s.created_at) < now - WindowDays(label) * HoursPerDay

Usable(s) == ~IsNull(s.duration_minutes) /\ Val(s.duration_minutes) > 0

PositionsWhere(rows, P(_)) == {i \in 1..Len(rows) : P(rows[i])}

RECURSIVE SumOver(_, _)
\* sum of duration_minutes over a set of positions
SumOver(rows, positions) ==
    IF positions = {} THEN 0
    ELSE LET i == CHOOSE k \in positions : TRUE
         IN  Val(rows[i].duration_minutes) + SumOver(rows, positions \ {i})

\* x = n / d for integers n and d # 0
EqualsRatio(x, n, d) == IsFinite(x) /\ x[1] * d = n * x[2]

-----------------------------------------------------------------------------
(* C1 (SpecDash): with 7d, 30d or 90d selected and no other filter active, *)
(* sessionAnalytics.previousPeriod.count is the number of fetched sessions *)
(* with a usable duration whose created_at lies in [now - 2W, now - W).    *)
C1_PreviousPeriodCounted ==
    (/\ ui.dateRange \in {"7d", "30d", "90d"}
     /\ ui.participantFilter = "all"
     /\ ui.engagement = "all")
    => /\ sessionAnalytics.previousPeriod.count =
            Cardinality(PositionsWhere(props.appUsageData,
                LAMBDA s : Usable(s) /\ InPreviousWindow(s, ui.dateRange)))
       /\ periodComparison.sessions.previous = sessionAnalytics.previousPeriod.count

-----------------------------------------------------------------------------
(* C2 (Spec): each of change.count, change.mean and participants.change is *)
(* (current - previous) / previous * 100 when its previous-period value is *)
(* non-zero and exactly 0 otherwise; all three are 0, never NaN or         *)
(* Infinity, when no session lies in the previous window.                  *)
C2_ChangeIsPercentageOrZero ==
    LET change == sessionAnalytics.previousPeriod.change
        participants == periodComparison.participants
        prevPos == IF dateRange = "all" THEN {}
                   ELSE PositionsWhere(HookSessions, LAMBDA s : InPreviousWindow(s, dateRange))
        prevUsable == {i \in prevPos : Usable(HookSessions[i])}
        curUsable == PositionsWhere(HookSessions, Usable)
        nPrev == Cardinality(prevUsable)
        nCur == Cardinality(curUsable)
        sumPrev == SumOver(HookSessions, prevUsable)
        sumCur == SumOver(HookSessions, curUsable)
        partPrev == Cardinality({Val(HookSessions[i].participant_number) :
                        i \in {k \in prevPos : ~IsNull(HookSessions[k].participant_number)}})
        partCur == Cardinality({Val(HookSessions[i].participant_number) :
                        i \in {k \in 1..Len(HookSessions) : ~IsNull(HookSessions[k].participant_number)}})
    IN  /\ IF nPrev # 0
           THEN /\ EqualsRatio(change.count, (nCur - nPrev) * 100, nPrev)
                \* (sumCur/nCur - sumPrev/nPrev) / (sumPrev/nPrev) * 100
                /\ EqualsRatio(change.mean, (sumCur * nPrev - sumPrev * nCur) * 100, sumPrev * nCur)
           ELSE change.count = Num(0) /\ change.mean = Num(0)
        /\ IF partPrev # 0
           THEN EqualsRatio(participants.change, (partCur - partPrev) * 100, partPrev)
           ELSE participants.change = Num(0)
        /\ prevPos = {} =>
              /\ change.count = Num(0)
              /\ change.mean = Num(0)
              /\ participants.change = Num(0)

C2_Witness ==
    LET previous == sessionAnalytics.previousPeriod
        participants == periodComparison.participants
    IN  /\ previous.count > 0
        /\ previous.change.count # Num(0)
        /\ previous.change.mean # Num(0)
        /\ participants.previous > 0
        /\ participants.change # Num(0)

-----------------------------------------------------------------------------
(* Calendar periods read back from buckets and from session dates          *)

\* position in time of the calendar period a bucket stands for
BucketOrdinal(bucket) ==
    IF bucket.grouping = "monthly"
    THEN LET dash == CHOOSE k \in 1..Len(bucket.period) : bucket.period[k] = 45
         IN  ParseNat(SubSeq(bucket.period, 1, dash - 1)) * 12
                 + ParseNat(SubSeq(bucket.period, dash + 1, Len(bucket.period)))
    ELSE bucket.period

\* position in time of the calendar period an instant falls in
InstantOrdinal(t, group) ==
    IF group = "monthly" THEN getFullYear(t) * 12 + getMonth(t) + 1
    ELSE IF group = "weekly" THEN (DayOf(t) - (DayOf(t) % 7)) * HoursPerDay
    ELSE DayOf(t) * HoursPerDay

DatedPositions == PositionsWhere(HookSessions, LAMBDA s : ~IsNull(s.created_at))

-----------------------------------------------------------------------------
(* C3 (Spec): timeSeriesData is in chronologically ascending order for     *)
(* daily, weekly and monthly grouping - an earlier position is an earlier  *)
(* calendar period - and holds each populated period exactly once, with    *)
(* the number of sessions dated in it.                                     *)
C3_ChronologicalBuckets ==
    LET series == timeSeriesData
        group == grouping
        periodOf(i) == InstantOrdinal(Val(HookSessions[i].created_at), group)
    IN  /\ \A i, j \in 1..Len(series) :
               i < j => BucketOrdinal(series[i]) < BucketOrdinal(series[j])
        /\ {BucketOrdinal(series[i]) : i \in 1..Len(series)} = {periodOf(i) : i \in DatedPositions}
        /\ \A i \in 1..Len(series) :
               series[i].count =
                   Cardinality({k \in DatedPositions : periodOf(k) = BucketOrdinal(series[i])})

-----------------------------------------------------------------------------
(* C4 (Spec): every numeric field of the returned snapshot, and every      *)
(* quotient computed on the way to it, is finite for all input arrays and  *)
(* date-range labels.                                                      *)
C4_AllNumericFieldsFinite ==
    LET a == analytics
        sa == a.sessionAnalytics
        pc == a.periodComparison
        nf == a.pretestAnalysis.numericFields
        people == participantData
    IN  /\ \A x \in {sa.mean, sa.median, sa.min, sa.max,
                     sa.percentiles.p25, sa.percentiles.p75, sa.percentiles.p90, sa.percentiles.p95,
                     sa.previousPeriod.mean, sa.previousPeriod.median,
                     sa.previousPeriod.change.count, sa.previousPeriod.change.mean} : IsFinite(x)
        /\ SurdFinite(sa.standardDeviation)
        /\ IsFinite(a.sessionTrend.slope)
        /\ \A x \in {pc.sessions.change, pc.duration.current, pc.duration.previous,
                     pc.duration.change, pc.participants.change} : IsFinite(x)
        /\ \A key \in DOMAIN nf :
               /\ \A x \in {nf[key].mean, nf[key].median, nf[key].min, nf[key].max} : IsFinite(x)
               /\ SurdFinite(nf[key].standardDeviation)
        /\ \A k \in 1..Len(people) :
               IsFinite(people[k].totalDuration) /\ IsFinite(people[k].avgDuration)
        /\ IsNull(a.correlations) \/ SurdFinite(Val(a.correlations).coefficient)
        /\ IsFinite(sessionsPerParticipant)
        /\ \A i \in 1..Len(a.insights) : SurdFinite(a.insights[i].metric)
        /\ \A x \in {a.summary.averageSessionDuration,
                     a.summary.dataQuality.sessionCompleteness,
                     a.summary.dataQuality.responseRate,
                     a.summary.comparisonMetrics.sessionChange,
                     a.summary.comparisonMetrics.durationChange,
                     a.summary.comparisonMetrics.participantChange} : IsFinite(x)

C4_Witness ==
    /\ Len(timeSeriesData) >= 2
    /\ sessionTrend.slope # Num(0)
    /\ sessionAnalytics.previousPeriod.count > 0
    /\ periodComparison.duration.change # Num(0)
    /\ ~IsNull(sessionsVsDuration)
    /\ ~SurdIsZero(Val(sessionsVsDuration).coefficient)

-----------------------------------------------------------------------------
(* C5 (SpecEmpty): when each of the three arrays is null, undefined or [], *)
(* for every date-range label, nothing raises and the snapshot holds the   *)
(* defaults: count, mean, median, standard deviation, min and max 0, no    *)
(* buckets, trend {0, 'stable'}, all percentage changes 0, an empty        *)
(* demographicDistribution, no correlation object and no insights.         *)
C5_EmptyInputsGiveDefaults ==
    (/\ hookIn.appUsageData \in EmptyArgs
     /\ hookIn.pretestData \in EmptyArgs
     /\ hookIn.demographicsData \in EmptyArgs)
    => /\ ~raised
       /\ LET a == analytics
              sa == a.sessionAnalytics
          IN  /\ sa.count = 0
              /\ sa.mean = Num(0)
              /\ sa.median = Num(0)
              /\ sa.standardDeviation = SurdOf(Num(0))
              /\ sa.min = Num(0)
              /\ sa.max = Num(0)
              /\ a.timeSeriesData = <<>>
              /\ a.sessionTrend = [slope |-> Num(0), direction |-> "stable"]
              /\ sa.previousPeriod.change.count = Num(0)
              /\ sa.previousPeriod.change.mean = Num(0)
              /\ a.periodComparison.sessions.change = Num(0)
              /\ a.periodComparison.duration.change = Num(0)
              /\ a.periodComparison.participants.change = Num(0)
              /\ DOMAIN a.demographicDistribution = {}
              /\ IsNull(a.correlations)
              /\ a.insights = <<>>

C5_Witness ==
    /\ hookIn.appUsageData = NullArg
    /\ hookIn.pretestData = UndefinedArg
    /\ hookIn.demographicsData = NullArg
    /\ hookIn.dateRange = "30d"
    /\ ~raised
    /\ analytics.insights = <<>>

-----------------------------------------------------------------------------
(* C6 (Spec): in the returned insights no insight of lower impact stands   *)
(* before one of higher impact (high > medium > low), whichever rules      *)
(* fired.                                                                  *)
ImpactLevel(impact) == CASE impact = "high" -> 2 [] impact = "medium" -> 1 [] impact = "low" -> 0

C6_InsightsOrderedByImpact ==
    LET insights == generateInsights
    IN  \A i, j \in 1..Len(insights) :
            i < j => ImpactLevel(insights[i].impact) >= ImpactLevel(insights[j].impact)

\* the rules pushed a medium-impact insight before a high-impact one
C6_Witness ==
    LET pushed == pushedInsights
    IN  /\ \E i, j \in 1..Len(pushed) :
               i < j /\ pushed[i].impact = "medium" /\ pushed[j].impact = "high"
        /\ Len(generateInsights) = Len(pushed)

-----------------------------------------------------------------------------
(* C7 (Spec): the field set of demographicDistribution never contains the  *)
(* keys 'id' or 'created_at', whatever fields the records carry.           *)
C7_NoIdOrCreatedAt ==
    /\ "id" \notin DOMAIN demographicDistribution
    /\ "created_at" \notin DOMAIN demographicDistribution

\* a record with an id and a created_at was tallied
C7_Witness ==
    /\ \E i \in 1..Len(currentDemographics.items) :
           /\ \E e \in 1..Len(Entries(currentDemographics.items[i])) :
                  Entries(currentDemographics.items[i])[e][1] = "id"
           /\ \E e \in 1..Len(Entries(currentDemographics.items[i])) :
                  Entries(currentDemographics.items[i])[e][1] = "created_at"
    /\ "gender" \in DOMAIN demographicDistribution

-----------------------------------------------------------------------------
(* C8 (Spec): demographicDistribution has no entry for the identifier      *)
(* fields participant_id and sample_code.                                  *)
C8_NoIdentifierFields ==
    /\ "participant_id" \notin DOMAIN demographicDistribution
    /\ "sample_code" \notin DOMAIN demographicDistribution

-----------------------------------------------------------------------------
(* C9 (Spec): sessionAnalytics.count is the number of sessions whose       *)
(* duration_minutes is present and non-negative, and mean, min and max are *)
(* taken over exactly those durations; only null or absent durations are   *)
(* left out.                                                               *)
C9_PresentDurationsCounted ==
    LET present == PositionsWhere(HookSessions,
                       LAMBDA s : ~IsNull(s.duration_minutes) /\ Val(s.duration_minutes) >= 0)
        valueAt(i) == Val(HookSessions[i].duration_minutes)
        sa == sessionAnalytics
    IN  /\ sa.count = Cardinality(present)
        /\ present # {} =>
              /\ EqualsRatio(sa.mean, SumOver(HookSessions, present), Cardinality(present))
              /\ \E i \in present : sa.min = Num(valueAt(i)) /\ \A k \in present : valueAt(i) <= valueAt(k)
              /\ \E i \in present : sa.max = Num(valueAt(i)) /\ \A k \in present : valueAt(i) >= valueAt(k)

-----------------------------------------------------------------------------
(* C10 (Spec): the bucket granularity depends on the date-range label      *)
(* only - 'today', '7d' and '30d' give 'daily', '90d' gives 'weekly',      *)
(* 'all' gives 'monthly' - and every bucket of timeSeriesData carries it.  *)
C10_GroupingFollowsLabel ==
    LET expected == CASE dateRange \in {"today", "7d", "30d"} -> "daily"
                      [] dateRange = "90d" -> "weekly"
                      [] dateRange = "all" -> "monthly"
        series == timeSeriesData
    IN  /\ grouping = expected
        /\ \A i \in 1..Len(series) : series[i].grouping = expected

C10_Witness ==
    /\ dateRange = "90d"
    /\ Len(timeSeriesData) >= 2
    /\ timeSeriesData[1].grouping = "weekly"

-----------------------------------------------------------------------------
(* Readings of a bucket series                                             *)

Counts(series) == [i \in 1..Len(series) |-> series[i].count]
StrictlyIncreasing(counts) == \A i \in 1..(Len(counts) - 1) : counts[i] < counts[i + 1]
StrictlyDecreasing(counts) == \A i \in 1..(Len(counts) - 1) : counts[i] > counts[i + 1]
AllEqual(counts) == \A i, j \in 1..Len(counts) : counts[i] = counts[j]
Chronological(series) ==
    \A i, j \in 1..Len(series) : i < j => BucketOrdinal(series[i]) < BucketOrdinal(series[j])

\* n * sum of i^2 - (sum of i)^2 over the indexes 0..n-1, in closed form
RegressionDenominator(n) ==
    n * (((n - 1) * n * (2 * n - 1)) \div 6) - ((n * (n - 1)) \div 2) * ((n * (n - 1)) \div 2)

\* n * sum of i*c[i] - (sum of i) * (sum of c[i]) over the indexes 0..n-1
RegressionNumerator(counts) ==
    LET n == Len(counts)
    IN  n * SumInt([k \in 1..n |-> (k - 1) * counts[k]]) - ((n * (n - 1)) \div 2) * SumInt(counts)

-----------------------------------------------------------------------------
(* C11 (SpecTrend): calculateTrend returns slope 0 and direction 'stable'  *)
(* for a series of 0 or 1 buckets; for 2 or more buckets the least-squares *)
(* denominator n*sumXX - sumX^2 is strictly positive and the slope is a    *)
(* finite number.                                                          *)
C11_TrendDefinedForEverySeries ==
    LET series == timeSeriesData
        trend == calculateTrend(series)
    IN  /\ Len(series) < 2 => trend = [slope |-> Num(0), direction |-> "stable"]
        /\ Len(series) >= 2 =>
              /\ RegressionDenominator(Len(series)) > 0
              /\ IsFinite(trend.slope)
              /\ EqualsRatio(trend.slope, RegressionNumerator(Counts(series)),
                             RegressionDenominator(Len(series)))
        /\ trend.direction \in {"increasing", "decreasing", "stable"}

C11_Witness ==
    /\ Len(timeSeriesData) >= 3
    /\ sessionTrend.slope # Num(0)
    /\ IsFinite(sessionTrend.slope)

-----------------------------------------------------------------------------
(* C12 (SpecTrend): for a chronologically ordered series of 3 or more      *)
(* buckets the direction is 'increasing' when the counts strictly          *)
(* increase, 'decreasing' when they strictly decrease and 'stable' when    *)
(* they are all equal; summary.engagementTrend is sessionTrend.direction.  *)
C12_TrendFollowsCounts ==
    LET series == timeSeriesData
        trend == sessionTrend
        counts == Counts(series)
    IN  /\ (Len(series) >= 3 /\ Chronological(series)) =>
              /\ StrictlyIncreasing(counts) => trend.direction = "increasing"
              /\ StrictlyDecreasing(counts) => trend.direction = "decreasing"
              /\ AllEqual(counts) => trend.direction = "stable"
        /\ summary.engagementTrend = trend.direction

C12_Witness ==
    LET series == timeSeriesData
    IN  /\ Len(series) >= 3
        /\ Chronological(series)
        /\ StrictlyIncreasing(Counts(series))
        /\ summary.engagementTrend = "increasing"


-----------------------------------------------------------------------------
(* Readings of the chart's input and result used by the cohort properties  *)

ChartSessions == hookIn.appUsageData.items

\* the week starts (as ISO dates) of all participants' first sessions, oldest first
AllCohortKeys ==
    LET firstSession == participantFirstSession(ChartSessions)
    IN  SortBy(SeqOfSet({cohortKeyOf(firstSession[p]) : p \in DOMAIN firstSession}), localeCompare)

ReportedCohorts == LET result == Val(cohortData) IN [i \in 1..Len(result) |-> result[i].cohort]

-----------------------------------------------------------------------------
(* C13 (SpecCohort): when the sessions produce more than 8 weekly cohorts  *)
(* the chart reports the 8 cohorts with the latest week starts, in         *)
(* chronological order; with 8 or fewer cohorts it reports all of them.    *)

C13_LatestCohortsReported ==
    ~IsNull(cohortData) =>
        LET all == AllCohortKeys
            n == Len(all)
        IN  ReportedCohorts = (IF n > MaxCohorts THEN SubSeq(all, n - MaxCohorts + 1, n) ELSE all)

-----------------------------------------------------------------------------
(* C14 (SpecCohort): for every reported cohort and every week k in 1..4    *)
(* the retention value is 100 * (cohort participants with a session whose  *)
(* created_at lies in [cohortStart + 7k days, cohortStart + 7k + 7 days))  *)
(* / (cohort size), whatever the type of participant_number; week 0 is     *)
(* 100; every value lies in 0..100; a cohort with no activity after its    *)
(* first week has 0 for weeks 1 to 4.                                      *)

\* the distinct participant_number values of the dated sessions
ChartParticipants ==
    {Val(ChartSessions[i].participant_number) : i \in cohortSessions(ChartSessions)}

\* the dates of the sessions of participant v
SessionDatesOf(v) ==
    {Val(ChartSessions[i].created_at) :
        i \in {j \in cohortSessions(ChartSessions) : Val(ChartSessions[j].participant_number) = v}}

\* the participants whose earliest session falls in the week of cohort c
CohortMembers(c) ==
    {v \in ChartParticipants :
        LET dates == SessionDatesOf(v)
        IN  cohortKeyOf(CHOOSE t \in dates : \A o \in dates : t <= o) = c}

\* the members of cohort c with a session in the k-th week after its start
ActiveMembers(c, k) ==
    LET from == parseISODate(c) + DaysPerWeek * k * HoursPerDay
    IN  {v \in CohortMembers(c) :
            \E t \in SessionDatesOf(v) : from <= t /\ t < from + DaysPerWeek * HoursPerDay}

C14_RetentionFormula ==
    ~IsNull(cohortData) =>
        LET result == Val(cohortData)
        IN  \A i \in 1..Len(result) :
                LET c == result[i].cohort
                    data == result[i].data
                    size == Cardinality(CohortMembers(c))
                IN  /\ Len(data) = RetentionWeeks + 1
                    /\ data[1] = Num(100)
                    /\ \A k \in 1..RetentionWeeks :
                        /\ EqualsRatio(data[k + 1], 100 * Cardinality(ActiveMembers(c, k)), size)
                        /\ RGe(data[k + 1], Num(0)) /\ RLe(data[k + 1], Num(100))
                    /\ (\A k \in 1..RetentionWeeks : ActiveMembers(c, k) = {})
                            => \A k \in 1..RetentionWeeks : data[k + 1] = Num(0)

-----------------------------------------------------------------------------
(* Order statistics of an array, read off by counting                      *)

CountBelow(arr, v) == Cardinality({i \in 1..Len(arr) : RLt(arr[i], v)})
CountUpTo(arr, v) == Cardinality({i \in 1..Len(arr) : RLe(arr[i], v)})

\* the k-th value of arr in ascending order (k in 1..Len(arr))
KthSmallest(arr, k) ==
    CHOOSE v \in {arr[i] : i \in 1..Len(arr)} : CountBelow(arr, v) < k /\ k <= CountUpTo(arr, v)

-----------------------------------------------------------------------------
(* C15 (SpecCalls): median returns 0 for an empty array, the middle value  *)
(* of the ascending order for odd length and the average of the two middle *)
(* values for even length, whatever the order of the input; the input      *)
(* array has its original order after the call.                            *)

C15_MedianOfAnyOrder ==
    call.fn = "median" =>
        LET n == Len(call.arr)
        IN  /\ n = 0 => call.result = Num(0)
            /\ (n > 0 /\ n % 2 = 1) => call.result = KthSmallest(call.arr, (n + 1) \div 2)
            /\ (n > 0 /\ n % 2 = 0) =>
                    call.result = RDiv(RAdd(KthSmallest(call.arr, n \div 2),
                                            KthSmallest(call.arr, n \div 2 + 1)), Num(2))
            /\ call.after = call.arr

\* median([3, 0, 2, 1]) has returned 1.5 and left the array as it was
C15_Witness ==
    /\ call.fn = "median"
    /\ call.arr = <<Num(3), Num(0), Num(2), Num(1)>>
    /\ call.result = Frac(3, 2)
    /\ call.after = <<Num(3), Num(0), Num(2), Num(1)>>

-----------------------------------------------------------------------------
(* C16 (SpecCalls): percentile(arr, p) returns 0 for an empty array; for a *)
(* non-empty array it returns the minimum for p = 0, the maximum for       *)
(* p = 100, the element at sorted index p/100*(n-1) when that index is an  *)
(* integer, and otherwise a value between the two neighbouring sorted      *)
(* elements; percentile(arr, 50) equals median(arr), and                   *)
(* p25 <= p75 <= p90 <= p95, also in sessionAnalytics.percentiles.         *)

\* p25 <= p75 <= p90 <= p95
Ascending(ps) == RLe(ps.p25, ps.p75) /\ RLe(ps.p75, ps.p90) /\ RLe(ps.p90, ps.p95)

C16_PercentileInterpolates ==
    /\ call.fn = "percentile" =>
        LET arr == call.arr
            n == Len(arr)
            scaled == call.p * (n - 1)      \* a hundred times the sorted index
            below == KthSmallest(arr, scaled \div 100 + 1)
        IN  /\ n = 0 => call.result = Num(0)
            /\ (n > 0 /\ call.p = 0) => call.result = KthSmallest(arr, 1)
            /\ (n > 0 /\ call.p = 100) => call.result = KthSmallest(arr, n)
            /\ (n > 0 /\ scaled % 100 = 0) => call.result = below
            /\ (n > 0 /\ scaled % 100 # 0) =>
                    /\ RLe(below, call.result)
                    /\ RLe(call.result, KthSmallest(arr, scaled \div 100 + 2))
            /\ call.p = 50 => call.result = median(arr)
            /\ Ascending([p25 |-> percentile(arr, 25), p75 |-> percentile(arr, 75),
                          p90 |-> percentile(arr, 90), p95 |-> percentile(arr, 95)])
    /\ Ascending(sessionAnalytics.percentiles)

\* percentile([3, 0, 2, 1], 90) has returned 2.7, between the sorted neighbours 2 and 3
C16_Witness ==
    /\ call.fn = "percentile"
    /\ call.arr = <<Num(3), Num(0), Num(2), Num(1)>>
    /\ call.p = 90
    /\ call.result = Frac(27, 10)

-----------------------------------------------------------------------------
(* C17 (SpecCalls): correlation(x, y) returns exactly 0, never NaN, when x *)
(* or y is empty, their lengths differ, or either vector has zero variance *)
(* (all elements equal, a single element included); the strength           *)
(* classification is then 'weak' and no correlation insight is emitted.    *)

ZeroVariance(x) == \A i, j \in 1..Len(x) : x[i] = x[j]
Degenerate(x, y) ==
    Len(x) = 0 \/ Len(y) = 0 \/ Len(x) # Len(y) \/ ZeroVariance(x) \/ ZeroVariance(y)

-----------------------------------------------------------------------------
(* C18 (SpecFrame): one analytics computation leaves its three input       *)
(* arrays and every record in them unchanged: same elements, same order,   *)
(* same field values before and after, for every input and date range.     *)

-----------------------------------------------------------------------------
(* C19 (SpecSource): a fetch that fails ends in the state {error = the     *)
(* failure message, loading = false} with the previously loaded data       *)
(* unchanged; a fetch that succeeds ends in {error = null, loading =       *)
(* false, data = the returned rows, or [] when the backend returns null};  *)
(* the hook's data is never null.                                          *)

C19_FetchOutcomes ==
    /\ source.settled.outcome = "failure" =>
            /\ source.error = Some(source.settled.message)
            /\ source.loading = FALSE
            /\ source.data = source.settled.before
    /\ source.settled.outcome = "success" =>
            /\ source.error = Null
            /\ source.loading = FALSE
            /\ source.data = (IF IsArray(source.settled.result) THEN source.settled.result
                              ELSE ArrayOf(<<>>))
    /\ IsArray(source.data)

-----------------------------------------------------------------------------
(* C20 (Spec): the 'Strong User Retention' insight (positive, impact high) *)
(* is emitted if and only if the number of sessions divided by the number  *)
(* of distinct participants is greater than 5; it is not emitted when the  *)
(* input names no participant at all.                                      *)

\* the distinct participant numbers named by the sessions
NamedParticipants ==
    {Val(HookSessions[i].participant_number) :
        i \in {j \in 1..Len(HookSessions) : ~IsNull(HookSessions[j].participant_number)}}

StrongRetentionEmitted ==
    \E i \in 1..Len(generateInsights) :
        /\ generateInsights[i].title = "Strong User Retention"
        /\ generateInsights[i].type = "positive"
        /\ generateInsights[i].impact = "high"

C20_StrongRetentionRule ==
    LET participants == Cardinality(NamedParticipants)
    IN  StrongRetentionEmitted <=> (participants > 0 /\ Len(HookSessions) > 5 * participants)

-----------------------------------------------------------------------------
(* C21 (SpecCohort): cohort assignment is a partition: every participant   *)
(* with a dated session belongs to exactly one cohort, the key of that     *)
(* cohort is the date of the day-of-week-0 start of the week containing    *)
(* the participant's earliest session, and the earliest session lies in    *)
(* [cohortStart, cohortStart + 7 days) for the cohort start read back from *)
(* the key.                                                                *)

\* the calendar date of the Sunday on or before the instant t, written YYYY-MM-DD
WeekStartDate(t) ==
    LET sunday == (DayOf(t) - (DayOf(t) % DaysPerWeek)) * HoursPerDay
    IN  Digits(getFullYear(sunday)) \o <<45>> \o Pad2(getMonth(sunday) + 1) \o <<45>>
            \o Pad2(getDate(sunday))

EarliestSessionOf(v) == LET dates == SessionDatesOf(v) IN CHOOSE t \in dates : \A o \in dates : t <= o

C21_CohortsPartition ==
    ~IsNull(cohortData) =>
        LET cohorts == cohortsOf(participantFirstSession(ChartSessions))
        IN  \A v \in ChartParticipants :
                LET own == {c \in DOMAIN cohorts : PropertyKey(v) \in cohorts[c]}
                    earliest == EarliestSessionOf(v)
                IN  /\ Cardinality(own) = 1
                    /\ \A c \in own :
                        /\ c = WeekStartDate(earliest)
                        /\ parseISODate(c) <= earliest
                        /\ earliest < parseISODate(c) + DaysPerWeek * HoursPerDay

-----------------------------------------------------------------------------
(* C22 (Spec): for every non-empty list of positive session durations, a   *)
(* single duration and durations that are all equal included,              *)
(* histogramData raises no exception and puts each duration in exactly one *)
(* bin with index in 0..binCount-1, so the bin counts sum to the number of *)
(* durations.                                                              *)

\* the sessions with a positive duration
PositiveDurations == {i \in 1..Len(HookSessions) : Usable(HookSessions[i])}

RECURSIVE SumCounts(_)
SumCounts(counts) ==
    IF counts = <<>> THEN 0 ELSE counts[1] + SumCounts(Tail(counts))

C22_EveryDurationBinned ==
    PositiveDurations # {} =>
        LET chart == histogramData
        IN  /\ chart.outcome = "chart"
            /\ \A i \in 1..Len(chart.binIndex) :
                    /\ IsInteger(chart.binIndex[i])
                    /\ chart.binIndex[i][1] \in 0..(Len(chart.data) - 1)
            /\ SumCounts(chart.data) = Cardinality(PositiveDurations)

-----------------------------------------------------------------------------
(* C23 (SpecFeatures): for every participant in the correlation feature    *)
(* set, the session count is the number of that participant's sessions     *)
(* with a duration_minutes that is not null, totalDuration is the sum of   *)
(* those durations and avgDuration = totalDuration / sessionCount with     *)
(* sessionCount >= 1; the hook's feature vectors and the points of the     *)
(* scatter chart are the same for the same session array.                  *)

\* positions of the sessions of participant p that have a duration
DurationPositions(p) ==
    {i \in 1..Len(HookSessions) :
        /\ HookSessions[i].participant_number = Some(p)
        /\ ~IsNull(HookSessions[i].duration_minutes)}

\* count, total and average agree with the sessions of the participant
FeatureAgrees(p, count, total, avg) ==
    /\ count = Cardinality(DurationPositions(p))
    /\ count >= 1
    /\ total = Num(SumOver(HookSessions, DurationPositions(p)))
    /\ EqualsRatio(avg, SumOver(HookSessions, DurationPositions(p)), count)

C23_FeatureVectorsAgree ==
    LET entry == sessionsVsDuration
        points == correlationData
        hook == participantData
        chart == scatterParticipantData(HookSessions)
    IN  /\ ~IsNull(entry) =>
                \A k \in 1..Len(hook) :
                    FeatureAgrees(hook[k].participant, hook[k].sessions, hook[k].totalDuration,
                                  hook[k].avgDuration)
        /\ ~IsNull(points) =>
                \A k \in 1..Len(chart) :
                    FeatureAgrees(chart[k].participant, chart[k].sessionCount,
                                  chart[k].totalDuration, chart[k].avgDuration)
        /\ (~IsNull(entry) /\ ~IsNull(points)) =>
                Val(points) = [k \in 1..Len(hook) |->
                                    [x |-> Num(hook[k].sessions), y |-> hook[k].avgDuration]]

-----------------------------------------------------------------------------
(* C24 (Spec): every numeric scale-item field that occurs in the pretest   *)
(* responses (the who5_, pss4_ and cope_ items) has an entry in            *)
(* pretestAnalysis.numericFields whose values list holds exactly the       *)
(* numeric values of that field over the responses, with                   *)
(* min <= mean <= max; only identifier fields are left out.                *)

\* the field name starts with one of the scale prefixes
ScaleItem(key) ==
    \E prefix \in {<<"w", "h", "o", "5", "_">>, <<"p", "s", "s", "4", "_">>, <<"c", "o", "p", "e", "_">>} :
        /\ Len(Spell(key)) >= Len(prefix)
        /\ SubSeq(Spell(key), 1, Len(prefix)) = prefix

\* the numeric values a field takes, in response order
NumericValuesOf(rows, key) ==
    LET valueIn(i) ==
            LET entries == Entries(rows[i])
                at == {e \in 1..Len(entries) : entries[e][1] = key /\ typeof(entries[e][2]) = "number"}
            IN  IF at = {} THEN <<>> ELSE <<Num(entries[CHOOSE e \in at : TRUE][2][2])>>
        RECURSIVE Upto(_)
        Upto(n) == IF n = 0 THEN <<>> ELSE Upto(n - 1) \o valueIn(n)
    IN  Upto(Len(rows))

NumericKeys(rows) ==
    {Entries(rows[c[1]])[c[2]][1] :
        c \in {d \in UNION {{<<i, j>> : j \in 1..Len(Entries(rows[i]))} : i \in 1..Len(rows)} :
                  typeof(Entries(rows[d[1]])[d[2]][2]) = "number"}}

C24_ScaleItemsAnalysed ==
    LET rows == currentPretest.items
        fields == pretestAnalysis.numericFields
        keys == NumericKeys(rows)
    IN  /\ \A key \in {k \in keys : ScaleItem(k)} :
              /\ key \in DOMAIN fields
              /\ fields[key].values = NumericValuesOf(rows, key)
              /\ RLe(fields[key].min, fields[key].mean)
              /\ RLe(fields[key].mean, fields[key].max)
        /\ \A key \in keys \ DOMAIN fields : key \in {"id", "participant_id"}

-----------------------------------------------------------------------------
(* C25 (SpecFilters): the engagement-level filter keeps exactly the        *)
(* sessions whose duration_minutes is >= 30 for 'high', >= 10 and < 30 for *)
(* 'medium' and < 10 for 'low', and the session-duration filter keeps      *)
(* exactly the sessions whose duration_minutes lies within the bounds      *)
(* given.                                                                  *)

\* the session record's duration in minutes, an absent one read as 0
DurationMinutesOf(item) == IF IsNull(item.duration_minutes) THEN 0 ELSE Val(item.duration_minutes)

C25_FiltersUseDurationMinutes ==
    LET base == byParticipant(byDate(props.appUsageData, ui.dateRange), ui.participantFilter)
        range == ui.sessionDuration
        inBounds(item) ==
            /\ (IsNull(range.min) \/ DurationMinutesOf(item) >= Val(range.min))
            /\ (IsNull(range.max) \/ DurationMinutesOf(item) <= Val(range.max))
        inLevel(item) ==
            CASE ui.engagement = "high" -> DurationMinutesOf(item) >= 30
              [] ui.engagement = "medium" -> DurationMinutesOf(item) >= 10 /\ DurationMinutesOf(item) < 30
              [] ui.engagement = "low" -> DurationMinutesOf(item) < 10
              [] OTHER -> TRUE
    IN  hookIn.appUsageData.items = SelectSeq(base, LAMBDA item : inBounds(item) /\ inLevel(item))

-----------------------------------------------------------------------------
(* C26 (SpecFilters): with a participant P selected, each of the three     *)
(* filtered arrays holds exactly P's records: the sessions and pretest     *)
(* responses with participant_number = P and the demographic records with  *)
(* participant_id = P, so a participant's demographic record is still      *)
(* there after the filter.                                                 *)

C26_ParticipantFilterKeepsOwnRecords ==
    ui.participantFilter # "all" =>
        LET P == ui.participantFilter
            own(rows, key) == SelectSeq(rows, LAMBDA r : FieldValue(r, key) = <<"str", P>>)
            ownSessions == SelectSeq(byDate(props.appUsageData, ui.dateRange),
                               LAMBDA item : item.participant_number = Some(P))
        IN  /\ byParticipant(byDate(props.appUsageData, ui.dateRange), P) = ownSessions
            /\ hookIn.pretestData.items = own(byDate(props.pretestData, ui.dateRange), "participant_number")
            /\ hookIn.demographicsData.items = own(byDate(props.demographicsData, ui.dateRange), "participant_id")

-----------------------------------------------------------------------------
(* C27 (SpecStress): for every pretest response whose four PSS-4 items are *)
(* integers in 0..4 the composite score lies in 0..16, it is 0 for the     *)
(* answers of minimal stress and 16 for those of maximal stress, and the   *)
(* displayed average of a non-empty set of responses lies in 0..16.        *)
PSS4Keys ==
    {"pss4_unable_control", "pss4_confident_handle", "pss4_going_your_way", "pss4_difficulties_piling"}

C27_CompositeWithinScale ==
    LET rows == props.pretestData
        valid == \A i \in 1..Len(rows) : \A key \in PSS4Keys :
                     FieldValue(rows[i], key)[1] = "num" /\ FieldValue(rows[i], key)[2] \in 0..4
    IN  valid =>
            /\ \A i \in 1..Len(rows) :
                  /\ pss4Composite(rows[i]) \in 0..16
                  /\ rows[i] = StressResponse(0, 4, 4, 0) => pss4Composite(rows[i]) = 0
                  /\ rows[i] = StressResponse(4, 0, 0, 4) => pss4Composite(rows[i]) = 16
            /\ Len(rows) > 0 =>
                  /\ RGe(Val(pss4AverageScore(rows)), Num(0))
                  /\ RLe(Val(pss4AverageScore(rows)), Num(16))

-----------------------------------------------------------------------------
(* C28 (SpecRace): when several fetches of the same table overlap, the     *)
(* data held once all of them have completed is the result of the fetch    *)
(* that was started last, whatever the order in which the responses        *)
(* arrive.                                                                 *)
AllSettled == Len(source.fetches) > 0 /\ PendingFetches = {}

C28_LatestFetchWins ==
    LET last == source.fetches[Len(source.fetches)]
    IN  (AllSettled /\ last.state = "success") => source.data = OrEmpty(last.result)

-----------------------------------------------------------------------------
(* C29 (SpecRace): loading is false only when no fetch is in flight: it is *)
(* true from the start of a fetch until every outstanding fetch has        *)
(* completed, and it is false once all of them have completed or failed.   *)
C29_LoadingTracksFetches ==
    /\ PendingFetches # {} => source.loading = TRUE
    /\ AllSettled => source.loading = FALSE

\* under SpecRaceFair: loading becomes false once the outstanding fetches have settled
C29_EventuallyNotLoading == (Len(source.fetches) > 0) ~> (AllSettled /\ source.loading = FALSE)

-----------------------------------------------------------------------------
(* C30 (SpecTable): after any sequence of page clicks, search-term         *)
(* changes, date and group filter changes, sort clicks and data refreshes, *)
(* currentPage lies in 1..max(1, totalPages), so the displayed page is     *)
(* never empty while the filtered result set is non-empty.                 *)
C30_CurrentPageInRange ==
    LET total == totalPages(props.data, ui)
    IN  /\ ui.currentPage >= 1
        /\ ui.currentPage <= (IF total > 1 THEN total ELSE 1)
        /\ Len(processedData(props.data, ui)) > 0 => Len(currentData(props.data, ui)) > 0

=========================================================================
